---- MODULE Spec2Model ----
(***************************************************************************)
(* A model of the Patch chess engine's search core:                        *)
(*   src/src/score.rs        the Score algebra (cmp, flip, min, max)       *)
(*   src/src/engine/mod.rs   Engine (set_position, calculate_stop_time,    *)
(*                           search, evaluate_board,                       *)
(*                           evaluate_board_quiescence) and BoardEvaluation*)
(*   src/src/engine/evaluation.rs  eval_heuristic: the piece tables and    *)
(*                           piece_table_eval, on piece placements         *)
(* The chess rule library is external: a Board is modelled as a finite     *)
(* game tree value giving status, legal moves (with their capture flag and *)
(* successor board) and the static evaluation of the position.             *)
(***************************************************************************)
EXTENDS Integers, Sequences, FiniteSets, TLC

VARIABLES
    sa, sb, sc,      \* Score algebra: three input scores
    sres,            \* Score algebra: the last operation applied and its output
    ev,              \* Evaluator: the position evaluated and the outcomes
    tm,              \* Time policy: the go options, the clock and the outcome
    lp,              \* Search driver: the serial iterative-deepening loop
    lk,              \* Lock protocol: one expanding node, its cells and its closures
    qs,              \* Quiescence: the placement a recursion path has reached
    tb, td,          \* Serial search: the board searched and current_search_depth
    tres,            \* Serial search: the records returned
    nin,             \* Single node: the arguments of the call and the clock's gate
    nres,            \* Single node: the record returned
    debug,                 \* Engine.debug
    board,                 \* Engine.board
    start_time,            \* Engine.start_time: Option<Instant>
    stop_time,             \* Engine.stop_time: Option<Instant>
    current_search_depth,  \* Engine.current_search_depth: u8
    depth_limit,           \* Engine.depth_limit: Option<u8>
    best_move_found,       \* Engine.best_move_found: Option<ChessMove>
    now,             \* Instant::now(), in milliseconds
    pc,              \* where the caller of the Engine stands
    nodes,           \* the expanding nodes of the running pass, by path from the root
    pass_eval,       \* search's local `eval`: the record the last pass returned
    out,             \* the info lines printed by the running or last search
    ret,             \* what the last Engine call returned
    passExpired,     \* history: some node of the running pass hit the time gate
    cleanMv,         \* history: the move of the last clean pass of this search call
    calls,           \* history: the number of Engine calls made
    setup,           \* history: the operation that last wrote the search parameters
    passes           \* history: the passes the running or last search has started

scoreVars == <<sa, sb, sc, sres>>

serialVars == <<tb, td, tres>>

nodeVars == <<nin, nres>>

auxVars == <<ev, tm, lp, lk, qs>>

engineFields == <<debug, board, start_time, stop_time, current_search_depth,
                  depth_limit, best_move_found>>

engineVars == <<debug, board, start_time, stop_time, current_search_depth,
                depth_limit, best_move_found, now, pc, nodes, pass_eval, out, ret,
                passExpired, cleanMv, calls, setup, passes>>

vars == <<ev, tm, lp, lk, qs, sa, sb, sc, sres, tb, td, tres, nin, nres, debug, board, start_time, stop_time,
          current_search_depth, depth_limit, best_move_found, now, pc, nodes,
          pass_eval, out, ret, passExpired, cleanMv, calls, setup, passes>>

----------------------------------------------------------------------------
(* Integer widths of Score::Centipawns(i16) and Score::Mate(i8) *)

I16Max == 32767

I16Min == -I16Max - 1

I8Max == 127

I8Min == -I8Max - 1

\* Two's complement wrap of x to the i8 range (release-build arithmetic)
Wrap8(x) == ((x - I8Min) % 256) + I8Min

\* Two's complement wrap of x to the i16 range (release-build arithmetic)
Wrap16(x) == ((x - I16Min) % 65536) + I16Min

InI8(x) == I8Min <= x /\ x <= I8Max

InI16(x) == I16Min <= x /\ x <= I16Max

Abs(x) == IF x < 0 THEN -x ELSE x

\* No operation applied yet
NoRes == [op |-> "none"]

\* The evaluator, time-policy, driver-loop, lock and quiescence harnesses are not in use
AuxIdle == ev = NoRes /\ tm = NoRes /\ lp = NoRes /\ lk = NoRes /\ qs = NoRes

----------------------------------------------------------------------------
(* Score *)

\* Score::cp
cp(x) == [t |-> "cp", v |-> x]

\* Score::mate
mate(m) == [t |-> "mate", v |-> m]

\* Score::min, M0
Score_min == mate(0)

\* Score::max, M1
Score_max == mate(1)

\* i8/i16 Ord::cmp on the payloads
IntCmp(x, y) == IF x < y THEN "Less" ELSE IF x = y THEN "Equal" ELSE "Greater"

\* cmp with the (Centipawns, Mate) arm testing m < 0 instead of m <= 0
cmp_strictZero(s1, s2) ==
    IF s1.t = "cp" /\ s2.t = "cp" THEN IntCmp(s1.v, s2.v)
    ELSE IF s1.t = "cp" /\ s2.t = "mate" THEN
        (IF s2.v < 0 THEN "Greater" ELSE "Less")
    ELSE IF s1.t = "mate" /\ s2.t = "cp" THEN
        (IF s1.v <= 0 THEN "Less" ELSE "Greater")
    ELSE
        (IF s1.v <= 0 /\ s2.v <= 0 THEN IntCmp(s2.v, s1.v)
         ELSE IF s1.v <= 0 /\ s2.v > 0 THEN "Less"
         ELSE IF s1.v > 0 /\ s2.v <= 0 THEN "Greater"
         ELSE IntCmp(s2.v, s1.v))

\* cmp with the both-positive mate arm comparing m1 with m2, not m2 with m1
cmp_mateForward(s1, s2) ==
    IF s1.t = "cp" /\ s2.t = "cp" THEN IntCmp(s1.v, s2.v)
    ELSE IF s1.t = "cp" /\ s2.t = "mate" THEN
        (IF s2.v <= 0 THEN "Greater" ELSE "Less")
    ELSE IF s1.t = "mate" /\ s2.t = "cp" THEN
        (IF s1.v <= 0 THEN "Less" ELSE "Greater")
    ELSE
        (IF s1.v <= 0 /\ s2.v <= 0 THEN IntCmp(s2.v, s1.v)
         ELSE IF s1.v <= 0 /\ s2.v > 0 THEN "Less"
         ELSE IF s1.v > 0 /\ s2.v <= 0 THEN "Greater"
         ELSE IntCmp(s1.v, s2.v))

\* impl Ord for Score, arm by arm
cmp(s1, s2) ==
    IF s1.t = "cp" /\ s2.t = "cp" THEN IntCmp(s1.v, s2.v)
    ELSE IF s1.t = "cp" /\ s2.t = "mate" THEN
        (IF s2.v <= 0 THEN "Greater" ELSE "Less")
    ELSE IF s1.t = "mate" /\ s2.t = "cp" THEN
        (IF s1.v <= 0 THEN "Less" ELSE "Greater")
    ELSE
        (IF s1.v <= 0 /\ s2.v <= 0 THEN IntCmp(s2.v, s1.v)
         ELSE IF s1.v <= 0 /\ s2.v > 0 THEN "Less"
         ELSE IF s1.v > 0 /\ s2.v <= 0 THEN "Greater"
         ELSE IntCmp(s2.v, s1.v))

\* The comparison operators PartialOrd derives from cmp
Lt(a, b) == cmp(a, b) = "Less"

Gt(a, b) == cmp(a, b) = "Greater"

Ge(a, b) == cmp(a, b) # "Less"

Le(a, b) == cmp(a, b) # "Greater"

\* Whether Score::flip overflows its payload type on s: -cp for i16::MIN,
\* m.abs() for i8::MIN, m.abs() + 1 for |m| = 127.  A build with overflow
\* checks panics there; a build without them wraps.
flipOverflows(s) ==
    IF s.t = "cp" THEN s.v = I16Min
    ELSE ~InI8(Abs(s.v)) \/ ~InI8(Abs(s.v) + 1)

\* flip negating the mate counter without adding a ply
flip_negate(s) == IF s.t = "cp" THEN cp(Wrap16(-s.v)) ELSE mate(Wrap8(-s.v))

\* Score::flip with wrapping arithmetic
flip(s) ==
    IF s.t = "cp" THEN cp(Wrap16(-s.v))
    ELSE IF s.v > 0 THEN mate(Wrap8(Wrap8(Wrap8(Abs(s.v)) + 1) * (-1)))
    ELSE mate(Wrap8(Wrap8(Abs(s.v)) + 1))

\* The outcomes of Score::flip over the builds: the wrapped value, or a
\* panic when the arithmetic overflows and overflow checks are compiled in
flipOutcomes(s) ==
    {[panic |-> FALSE, val |-> flip(s)]}
        \cup (IF flipOverflows(s) THEN {[panic |-> TRUE, val |-> s]} ELSE {})

----------------------------------------------------------------------------
(* Boards: the chess library's Board, as far as the search reads it *)

\* Bounds of the modelled game trees
MaxPly == 2

MaxMoves == 2

MaxHeur == 1

HeurVals == -MaxHeur .. MaxHeur

Opp(c) == IF c = "White" THEN "Black" ELSE "White"

\* A board with no legal move: BoardStatus::Checkmate or BoardStatus::Stalemate
TerminalBoard(st, c) == [status |-> st, stm |-> c, heur |-> 0, moves |-> <<>>]

\* BoardStatus::Ongoing; stm is side_to_move; heur is piece_table_eval of the
\* position; moves lists MoveGen::new_legal in generation order, each with
\* whether its destination holds an opponent piece and the board
\* make_move_new yields.  An Ongoing board with moves = <<>> stands for a
\* quiet position at the edge of the modelled tree: it has legal moves, none
\* of them a capture, and the model never expands it outside quiescence.
OngoingBoard(h, c, ms) == [status |-> "Ongoing", stm |-> c, heur |-> h, moves |-> ms]

SeqsUpTo(S, n) == UNION {[1 .. k -> S] : k \in 1 .. n}

\* All boards of at most k further plies with side c to move
RECURSIVE BoardsOfHeight(_, _)
BoardsOfHeight(k, c) ==
    {TerminalBoard("Checkmate", c), TerminalBoard("Stalemate", c)} \cup
    (IF k = 0 THEN {OngoingBoard(h, c, <<>>) : h \in HeurVals}
     ELSE LET Sub == BoardsOfHeight(k - 1, Opp(c))
              Mv == [capture : BOOLEAN, next : Sub]
          IN {OngoingBoard(h, c, ms) : h \in HeurVals, ms \in SeqsUpTo(Mv, MaxMoves)})

\* The least ply at which the tree below b has an edge position; a pass with
\* current_search_depth up to this value never expands an edge position
RECURSIVE EdgePly(_)
EdgePly(b) ==
    IF b.status # "Ongoing" THEN MaxPly + 1
    ELSE IF b.moves = <<>> THEN 0
    ELSE LET sub == {EdgePly(b.moves[i].next) : i \in 1 .. Len(b.moves)}
         IN 1 + (CHOOSE x \in sub : \A y \in sub : x <= y)

\* A ChessMove: the i-th move MoveGen generates on board `from`
Move(b, i) == [from |-> b, i |-> i]

\* Board::make_move_new
make_move_new(b, i) == b.moves[i].next

\* The captures of b: MoveGen::new_legal(board) after
\* remove_mask(!board.color_combined(!board.side_to_move()))
CaptureIdx(b) == {i \in 1 .. Len(b.moves) : b.moves[i].capture}

\* eval_heuristic: piece_table_eval wrapped in Score::cp
eval_heuristic(b) == cp(b.heur)

----------------------------------------------------------------------------
(* BoardEvaluation *)

None == <<>>

Some(x) == <<x>>

\* from_child keeping the child's own move when it has one
from_child_keepMv(child, mv) ==
    [mv |-> IF child.mv # None THEN child.mv ELSE Some(mv), depth |-> child.depth,
     score |-> flip(child.score), terminated_early |-> child.terminated_early]

\* BoardEvaluation::from_child
from_child(child, mv) ==
    [mv |-> Some(mv), depth |-> child.depth, score |-> flip(child.score),
     terminated_early |-> child.terminated_early]

\* BoardEvaluation::score
BE_score(s, depth) ==
    [mv |-> None, depth |-> depth, score |-> s, terminated_early |-> FALSE]

\* BoardEvaluation::score_early
BE_score_early(s, depth) ==
    [mv |-> None, depth |-> depth, score |-> s, terminated_early |-> TRUE]

\* BoardEvaluation::min
BE_min == [mv |-> None, depth |-> 0, score |-> mate(0), terminated_early |-> FALSE]

\* overwrite leaving self.mv as it was
overwrite_keepMv(self, other) ==
    [mv |-> self.mv, score |-> other.score,
     terminated_early |-> other.terminated_early,
     depth |-> IF self.depth >= other.depth THEN self.depth ELSE other.depth]

\* BoardEvaluation::overwrite
overwrite(self, other) ==
    [mv |-> other.mv, score |-> other.score,
     terminated_early |-> other.terminated_early,
     depth |-> IF self.depth >= other.depth THEN self.depth ELSE other.depth]

\* impl Ord for BoardEvaluation: by score alone
BE_gt(e1, e2) == Gt(e1.score, e2.score)

----------------------------------------------------------------------------
(* Engine: the state after construction *)

\* Board::default(): the starting position.  White to move, balanced, no
\* capture available in the first two plies.
StartBoard ==
    OngoingBoard(0, "White", <<
        [capture |-> FALSE, next |-> OngoingBoard(0, "Black", <<
            [capture |-> FALSE, next |-> OngoingBoard(0, "White", <<>>)],
            [capture |-> FALSE, next |-> OngoingBoard(1, "White", <<>>)]>>)],
        [capture |-> FALSE, next |-> OngoingBoard(-1, "Black", <<
            [capture |-> FALSE, next |-> OngoingBoard(1, "White", <<>>)]>>)]>>)

\* A position with a mate in one: White's first move is quiet, the second
\* one leaves Black in Checkmate
MateBoard ==
    OngoingBoard(0, "White", <<
        [capture |-> FALSE, next |-> OngoingBoard(0, "Black", <<
            [capture |-> FALSE, next |-> OngoingBoard(0, "White", <<>>)]>>)],
        [capture |-> FALSE, next |-> TerminalBoard("Checkmate", "Black")]>>)

\* A position with captures at the horizon: after White's second move Black
\* has a capture that wins material back
CaptureBoard ==
    OngoingBoard(0, "White", <<
        [capture |-> FALSE, next |-> OngoingBoard(0, "Black", <<>>)],
        [capture |-> FALSE, next |-> OngoingBoard(-1, "Black", <<
            [capture |-> TRUE, next |-> OngoingBoard(-1, "White", <<>>)]>>)]>>)

\* A position with exchanges at the horizon: after White's only move Black
\* stands worse and has two captures that both improve on standing pat
ExchangeBoard ==
    OngoingBoard(0, "White", <<
        [capture |-> FALSE, next |-> OngoingBoard(-1, "Black", <<
            [capture |-> TRUE, next |-> OngoingBoard(0, "White", <<>>)],
            [capture |-> TRUE, next |-> OngoingBoard(-1, "White", <<>>)]>>)]>>)

\* A position with losing exchanges at the horizon: after White's only move
\* Black stands better and both of Black's captures lose material
LosingBoard ==
    OngoingBoard(0, "White", <<
        [capture |-> FALSE, next |-> OngoingBoard(1, "Black", <<
            [capture |-> TRUE, next |-> OngoingBoard(1, "White", <<>>)],
            [capture |-> TRUE, next |-> OngoingBoard(0, "White", <<>>)]>>)]>>)

\* #[derive(Default)] for Engine: false, Board::default(), None, None, 0,
\* None, None; no Engine call made yet
EngineIdle ==
    /\ debug = FALSE
    /\ board = StartBoard
    /\ start_time = None
    /\ stop_time = None
    /\ current_search_depth = 0
    /\ depth_limit = None
    /\ best_move_found = None
    /\ now = 0
    /\ pc = "idle"
    /\ nodes = <<>>
    /\ pass_eval = BE_min
    /\ out = <<>>
    /\ ret = NoRes
    /\ passExpired = FALSE
    /\ cleanMv = None
    /\ calls = 0
    /\ setup = "default"
    /\ passes = 0

----------------------------------------------------------------------------
(* The search with siblings explored one at a time, in generation order:    *)
(* what find_map_any computes when a single worker runs the closures.       *)
(* `gate` is the outcome of stop_time.map(|st| Instant::now() > st)         *)
(* .unwrap_or_default() at every node of the evaluation.                    *)

\* What entering a node yields before any child is explored: the record
\* returned at once, or the cells of an expanding node
Return(e) == [tag |-> "ret", eval |-> e]

Expand(kind, best, alpha) == [tag |-> "expand", kind |-> kind, best |-> best, alpha |-> alpha]

\* evaluate_board_quiescence with the time gate tested before the status
quiescence_gateFirst(bd, alpha, beta, depth, gate) ==
    IF gate THEN Return(BE_score_early(eval_heuristic(bd), depth))
    ELSE IF bd.status = "Checkmate" THEN Return(BE_score(mate(0), depth))
    ELSE IF bd.status = "Stalemate" THEN Return(BE_score(cp(0), depth))
    ELSE
        LET stand_pat == eval_heuristic(bd)
        IN IF Ge(stand_pat, beta) THEN Return(BE_score(stand_pat, depth))
           ELSE IF CaptureIdx(bd) = {} THEN Return(BE_score(stand_pat, depth))
           ELSE Expand("quiescence", BE_score(stand_pat, depth),
                       IF Lt(alpha, stand_pat) THEN stand_pat ELSE alpha)

\* evaluate_board_quiescence with best seeded by BoardEvaluation::min()
quiescence_seedMin(bd, alpha, beta, depth, gate) ==
    IF bd.status = "Checkmate" THEN Return(BE_score(mate(0), depth))
    ELSE IF bd.status = "Stalemate" THEN Return(BE_score(cp(0), depth))
    ELSE IF gate THEN Return(BE_score_early(eval_heuristic(bd), depth))
    ELSE
        LET stand_pat == eval_heuristic(bd)
        IN IF Ge(stand_pat, beta) THEN Return(BE_score(stand_pat, depth))
           ELSE IF CaptureIdx(bd) = {} THEN Return(BE_min)
           ELSE Expand("quiescence", BE_min,
                       IF Lt(alpha, stand_pat) THEN stand_pat ELSE alpha)

\* Engine::evaluate_board_quiescence up to the creation of the cells; an
\* empty capture iterator makes find_map_any return None, so the node
\* returns *best.read() at once
quiescence_entry(bd, alpha, beta, depth, gate) ==
    IF bd.status = "Checkmate" THEN Return(BE_score(mate(0), depth))
    ELSE IF bd.status = "Stalemate" THEN Return(BE_score(cp(0), depth))
    ELSE IF gate THEN Return(BE_score_early(eval_heuristic(bd), depth))
    ELSE
        LET stand_pat == eval_heuristic(bd)
        IN IF Ge(stand_pat, beta) THEN Return(BE_score(stand_pat, depth))
           ELSE IF CaptureIdx(bd) = {} THEN Return(BE_score(stand_pat, depth))
           ELSE Expand("quiescence", BE_score(stand_pat, depth),
                       IF Lt(alpha, stand_pat) THEN stand_pat ELSE alpha)

\* Engine::evaluate_board up to the creation of the cells
evaluate_board_entry(bd, alpha, beta, depth, csd, gate) ==
    IF bd.status = "Checkmate" THEN Return(BE_score(mate(0), depth))
    ELSE IF bd.status = "Stalemate" THEN Return(BE_score(cp(0), depth))
    ELSE IF depth = csd THEN quiescence_entry(bd, alpha, beta, depth, gate)
    ELSE IF gate THEN Return(BE_score_early(eval_heuristic(bd), depth))
    ELSE Expand("interior", BE_min, alpha)

RECURSIVE evaluate_board(_, _, _, _, _, _)
RECURSIVE evaluate_board_quiescence(_, _, _, _, _)
RECURSIVE InteriorLoop(_, _, _, _, _, _, _, _)
RECURSIVE QuiescenceLoop(_, _, _, _, _, _, _)

\* The closure of evaluate_board run on moves i, i+1, ... with the cells
\* best and alpha as the earlier moves left them
InteriorLoop(bd, i, best, alpha, beta, depth, csd, gate) ==
    IF i > Len(bd.moves) THEN best
    ELSE
        LET next == make_move_new(bd, i)
            eval == from_child(
                        evaluate_board(next, flip(beta), flip(alpha), depth + 1, csd, gate),
                        Move(bd, i))
            best1 == IF BE_gt(eval, best) THEN overwrite(best, eval) ELSE best
            alpha1 == IF BE_gt(eval, best) /\ Gt(eval.score, alpha)
                      THEN eval.score ELSE alpha
        IN IF Ge(eval.score, beta) THEN best1
           ELSE InteriorLoop(bd, i + 1, best1, alpha1, beta, depth, csd, gate)

\* The closure of evaluate_board_quiescence run on the captures from index i on
QuiescenceLoop(bd, i, best, alpha, beta, depth, gate) ==
    IF i > Len(bd.moves) THEN best
    ELSE IF ~bd.moves[i].capture
        THEN QuiescenceLoop(bd, i + 1, best, alpha, beta, depth, gate)
    ELSE
        LET next == make_move_new(bd, i)
            eval == from_child(
                        evaluate_board_quiescence(next, flip(beta), flip(alpha),
                                                  depth + 1, gate),
                        Move(bd, i))
            best1 == IF BE_gt(eval, best) THEN overwrite(best, eval) ELSE best
            alpha1 == IF Gt(eval.score, alpha) THEN eval.score ELSE alpha
        IN IF Ge(eval.score, beta) THEN eval
           ELSE QuiescenceLoop(bd, i + 1, best1, alpha1, beta, depth, gate)

\* Engine::evaluate_board, serial
evaluate_board(bd, alpha, beta, depth, csd, gate) ==
    LET e == evaluate_board_entry(bd, alpha, beta, depth, csd, gate)
    IN IF e.tag = "ret" THEN e.eval
       ELSE IF e.kind = "interior"
           THEN InteriorLoop(bd, 1, e.best, e.alpha, beta, depth, csd, gate)
       ELSE QuiescenceLoop(bd, 1, e.best, e.alpha, beta, depth, gate)

\* Engine::evaluate_board_quiescence, serial
evaluate_board_quiescence(bd, alpha, beta, depth, gate) ==
    LET e == quiescence_entry(bd, alpha, beta, depth, gate)
    IN IF e.tag = "ret" THEN e.eval
       ELSE QuiescenceLoop(bd, 1, e.best, e.alpha, beta, depth, gate)

----------------------------------------------------------------------------
(* Unpruned negamax: the reference the pruned search is compared to *)

RECURSIVE MaxScore(_)
MaxScore(S) ==
    LET x == CHOOSE y \in S : TRUE
    IN IF S = {x} THEN x
       ELSE LET m == MaxScore(S \ {x}) IN IF Gt(x, m) THEN x ELSE m

RECURSIVE NegamaxQuiescence(_)
NegamaxQuiescence(bd) ==
    IF bd.status = "Checkmate" THEN mate(0)
    ELSE IF bd.status = "Stalemate" THEN cp(0)
    ELSE MaxScore({eval_heuristic(bd)} \cup
                  {flip(NegamaxQuiescence(make_move_new(bd, i))) :
                       i \in CaptureIdx(bd)})

RECURSIVE Negamax(_, _, _)
Negamax(bd, depth, csd) ==
    IF bd.status = "Checkmate" THEN mate(0)
    ELSE IF bd.status = "Stalemate" THEN cp(0)
    ELSE IF depth = csd THEN NegamaxQuiescence(bd)
    ELSE MaxScore({flip(Negamax(make_move_new(bd, i), depth + 1, csd)) :
                       i \in 1 .. Len(bd.moves)})

----------------------------------------------------------------------------
(* The serial search applied to boards drawn from the bounded family *)

\* Root positions: Ongoing, static evaluation 0 (the root's own evaluation
\* is read only when the root itself is a horizon or expired node)
SerialBoards ==
    LET Mv == [capture : {FALSE}, next : BoardsOfHeight(MaxPly - 1, "Black")]
    IN {OngoingBoard(0, "White", ms) : ms \in SeqsUpTo(Mv, MaxMoves)}

\* Bound of the forced-mate trees
MaxMatePly == 4

\* Forced-mate trees of at most k plies with side c to move: every line
\* ends in Checkmate, every move is quiet, every position is balanced
RECURSIVE MateTrees(_, _)
MateTrees(k, c) ==
    {TerminalBoard("Checkmate", c)} \cup
    (IF k = 0 THEN {}
     ELSE LET Mv == [capture : {FALSE}, next : MateTrees(k - 1, Opp(c))]
          IN {OngoingBoard(0, c, ms) : ms \in SeqsUpTo(Mv, MaxMoves)})

SerialIdle ==
    /\ tb = TerminalBoard("Stalemate", "White")
    /\ td = 0
    /\ tres = NoRes

NodeIdle ==
    /\ nin = [bd |-> TerminalBoard("Stalemate", "White"), alpha |-> Score_min,
              beta |-> Score_max, depth |-> 0, csd |-> 0, gate |-> FALSE]
    /\ nres = NoRes

InitSerial ==
    /\ AuxIdle
    /\ sa = Score_min /\ sb = Score_min /\ sc = Score_min /\ sres = NoRes
    /\ EngineIdle
    /\ NodeIdle
    /\ \/ tb \in SerialBoards /\ td \in 1 .. MaxPly
       \/ tb \in MateTrees(MaxMatePly, "White") /\ td \in 1 .. MaxMatePly
    /\ tres = NoRes

\* One pass of the driver's loop body, serial: evaluate_board(&self.board,
\* Score::min(), Score::max(), 0) with no deadline set
SerialPass ==
    /\ tres.op = "none"
    /\ tres' = [op |-> "pass",
                eval |-> evaluate_board(tb, Score_min, Score_max, 0, td, FALSE),
                negamax |-> Negamax(tb, 0, td)]
    /\ UNCHANGED <<tb, td, scoreVars, nodeVars, engineVars, auxVars>>

NextSerial == SerialPass

SpecSerial == InitSerial /\ [][NextSerial]_vars

----------------------------------------------------------------------------
(* Score algebra, applied to inputs drawn from a bounded set *)

MaxCp == 2

MaxMate == 3

CpVals == (-MaxCp .. MaxCp) \cup {I16Min, I16Min + 1, I16Max - 1, I16Max}

MateVals == (-MaxMate .. MaxMate) \cup {I8Min, I8Min + 1, I8Max - 1, I8Max}

ScoreDomain == {cp(x) : x \in CpVals} \cup {mate(m) : m \in MateVals}

InitScore ==
    /\ AuxIdle
    /\ sa \in ScoreDomain
    /\ sb \in ScoreDomain
    /\ sc \in ScoreDomain
    /\ sres = NoRes
    /\ SerialIdle
    /\ NodeIdle
    /\ EngineIdle

\* a.cmp(b), b.cmp(a), b.cmp(c), a.cmp(c), a == b, Score::min().cmp(a) and
\* Score::max().cmp(a) on the three inputs
CmpStep ==
    /\ sres.op = "none"
    /\ sres' = [op |-> "cmp", ab |-> cmp(sa, sb), ba |-> cmp(sb, sa),
                bc |-> cmp(sb, sc), ac |-> cmp(sa, sc), eq |-> (sa = sb),
                minA |-> cmp(Score_min, sa), maxA |-> cmp(Score_max, sa)]
    /\ UNCHANGED <<sa, sb, sc, serialVars, nodeVars, engineVars, auxVars>>

\* a.flip()
FlipStep ==
    /\ sres.op = "none"
    /\ \E o \in flipOutcomes(sa) :
        sres' = [op |-> "flip", out |-> o]
    /\ UNCHANGED <<sa, sb, sc, serialVars, nodeVars, engineVars, auxVars>>

\* a.flip().flip()
FlipTwiceStep ==
    /\ sres.op = "none"
    /\ \E o1 \in flipOutcomes(sa) :
        IF o1.panic THEN sres' = [op |-> "flip2", out |-> o1]
        ELSE \E o2 \in flipOutcomes(o1.val) :
                sres' = [op |-> "flip2", out |-> o2]
    /\ UNCHANGED <<sa, sb, sc, serialVars, nodeVars, engineVars, auxVars>>

\* a.cmp(b) and a.flip().cmp(b.flip())
FlipCmpStep ==
    /\ sres.op = "none"
    /\ \E oa \in flipOutcomes(sa), ob \in flipOutcomes(sb) :
        sres' = [op |-> "flipcmp", ab |-> cmp(sa, sb), a |-> oa, b |-> ob,
                 fab |-> cmp(oa.val, ob.val)]
    /\ UNCHANGED <<sa, sb, sc, serialVars, nodeVars, engineVars, auxVars>>

NextScore == CmpStep \/ FlipStep \/ FlipTwiceStep \/ FlipCmpStep

SpecScore == InitScore /\ [][NextScore]_vars

----------------------------------------------------------------------------
(* One call of evaluate_board or evaluate_board_quiescence, serial, on      *)
(* arguments drawn from a bounded set                                       *)

\* The windows' ends: the full window's, centipawn values and mates in between
NodeScores == {Score_min, Score_max, mate(-2)} \cup {cp(h) : h \in HeurVals}

\* Boards of every status with White to move: the edge positions, and the
\* boards one ply tall with a single move
NodeBoards ==
    BoardsOfHeight(0, "White") \cup {b \in BoardsOfHeight(1, "White") : Len(b.moves) <= 1}

\* A call the search can make: at most current_search_depth plies deep, and
\* on a board whose tree reaches the horizon before its edge positions
InitNode ==
    /\ AuxIdle
    /\ sa = Score_min /\ sb = Score_min /\ sc = Score_min /\ sres = NoRes
    /\ SerialIdle
    /\ EngineIdle
    /\ nin \in [bd : NodeBoards, alpha : NodeScores, beta : NodeScores,
                 depth : 0 .. MaxPly, csd : 0 .. MaxPly, gate : BOOLEAN]
    /\ nin.depth <= nin.csd
    /\ nin.bd.status = "Ongoing" => nin.csd <= nin.depth + EdgePly(nin.bd)
    /\ nres = NoRes

\* self.evaluate_board(board, alpha, beta, depth)
NodeEvaluate ==
    /\ nres.op = "none"
    /\ nres' = [op |-> "evaluate_board",
                eval |-> evaluate_board(nin.bd, nin.alpha, nin.beta, nin.depth,
                                        nin.csd, nin.gate)]
    /\ UNCHANGED <<nin, scoreVars, serialVars, engineVars, auxVars>>

\* self.evaluate_board_quiescence(board, alpha, beta, depth)
NodeQuiescence ==
    /\ nres.op = "none"
    /\ nres' = [op |-> "evaluate_board_quiescence",
                eval |-> evaluate_board_quiescence(nin.bd, nin.alpha, nin.beta,
                                                   nin.depth, nin.gate)]
    /\ UNCHANGED <<nin, scoreVars, serialVars, engineVars, auxVars>>

NextNode == NodeEvaluate \/ NodeQuiescence

SpecNode == InitNode /\ [][NextNode]_vars

----------------------------------------------------------------------------
(* The static evaluator: src/src/engine/evaluation.rs.  A position is the   *)
(* piece placement on the squares 0 (A1) .. 63 (H8) and the side to move.   *)

\* tables::midgame_material_values
midgame_material_values(piece) ==
    CASE piece = "Pawn" -> 82 [] piece = "Knight" -> 337 [] piece = "Bishop" -> 365
      [] piece = "Rook" -> 477 [] piece = "Queen" -> 1025 [] piece = "King" -> 0

\* tables::endgame_material_values
endgame_material_values(piece) ==
    CASE piece = "Pawn" -> 94 [] piece = "Knight" -> 281 [] piece = "Bishop" -> 297
      [] piece = "Rook" -> 512 [] piece = "Queen" -> 936 [] piece = "King" -> 0

\* tables::MIDGAME_<PIECE>_POSITION_VALUE, the six arrays by piece
MIDGAME_POSITION_VALUE ==
    [Pawn |->
       <<   0,    0,    0,    0,    0,    0,    0,    0,
          -35,   -1,  -20,  -23,  -15,   24,   38,  -22,
          -26,   -4,   -4,  -10,    3,    3,   33,  -12,
          -27,   -2,   -5,   12,   17,    6,   10,  -25,
          -14,   13,    6,   21,   23,   12,   17,  -23,
           -6,    7,   26,   31,   65,   56,   25,  -20,
           98,  134,   61,   95,   68,  126,   34,  -11,
            0,    0,    0,    0,    0,    0,    0,    0>>,
     Knight |->
       <<-105,  -21,  -58,  -33,  -17,  -28,  -19,  -23,
          -29,  -53,  -12,   -3,   -1,   18,  -14,  -19,
          -23,   -9,   12,   10,   19,   17,   25,  -16,
          -13,    4,   16,   13,   28,   19,   21,   -8,
           -9,   17,   19,   53,   37,   69,   18,   22,
          -47,   60,   37,   65,   84,  129,   73,   44,
          -73,  -41,   72,   36,   23,   62,    7,  -17,
         -167,  -89,  -34,  -49,   61,  -97,  -15, -107>>,
     Bishop |->
       << -33,   -3,  -14,  -21,  -13,  -12,  -39,  -21,
            4,   15,   16,    0,    7,   21,   33,    1,
            0,   15,   15,   15,   14,   27,   18,   10,
           -6,   13,   13,   26,   34,   12,   10,    4,
           -4,    5,   19,   50,   37,   37,    7,   -2,
          -16,   37,   43,   40,   35,   50,   37,   -2,
          -26,   16,  -18,  -13,   30,   59,   18,  -47,
          -29,    4,  -82,  -37,  -25,  -42,    7,   -8>>,
     Rook |->
       << -19,  -13,    1,   17,   16,    7,  -37,  -26,
          -44,  -16,  -20,   -9,   -1,   11,   -6,  -71,
          -45,  -25,  -16,  -17,    3,    0,   -5,  -33,
          -36,  -26,  -12,   -1,    9,   -7,    6,  -23,
          -24,  -11,    7,   26,   24,   35,   -8,  -20,
           -5,   19,   26,   36,   17,   45,   61,   16,
           27,   32,   58,   62,   80,   67,   26,   44,
           32,   42,   32,   51,   63,    9,   31,   43>>,
     Queen |->
       <<  -1,  -18,   -9,   10,  -15,  -25,  -31,  -50,
          -35,   -8,   11,    2,    8,   15,   -3,    1,
          -14,    2,  -11,   -2,   -5,    2,   14,    5,
           -9,  -26,   -9,  -10,   -2,   -4,    3,   -3,
          -27,  -27,  -16,  -16,   -1,   17,   -2,    1,
          -13,  -17,    7,    8,   29,   56,   47,   57,
          -24,  -39,   -5,    1,  -16,   57,   28,   54,
          -28,    0,   29,   12,   59,   44,   43,   45>>,
     King |->
       << -15,   36,   12,  -54,    8,  -28,   24,   14,
            1,    7,   -8,  -64,  -43,  -16,    9,    8,
          -14,  -14,  -22,  -46,  -44,  -30,  -15,  -27,
          -49,   -1,  -27,  -39,  -46,  -44,  -33,  -51,
          -17,  -20,  -12,  -27,  -30,  -25,  -14,  -36,
           -9,   24,    2,  -16,  -20,    6,   22,  -22,
           29,   -1,  -20,   -7,   -8,   -4,  -38,  -29,
          -65,   23,   16,  -15,  -56,  -34,    2,   13>>]

\* tables::ENDGAME_<PIECE>_POSITION_VALUE, the six arrays by piece
ENDGAME_POSITION_VALUE ==
    [Pawn |->
       <<   0,    0,    0,    0,    0,    0,    0,    0,
           13,    8,    8,   10,   13,    0,    2,   -7,
            4,    7,   -6,    1,    0,   -5,   -1,   -8,
           13,    9,   -3,   -7,   -7,   -8,    3,   -1,
           32,   24,   13,    5,   -2,    4,   17,   17,
           94,  100,   85,   67,   56,   53,   82,   84,
          178,  173,  158,  134,  147,  132,  165,  187,
            0,    0,    0,    0,    0,    0,    0,    0>>,
     Knight |->
       << -29,  -51,  -23,  -15,  -22,  -18,  -50,  -64,
          -42,  -20,  -10,   -5,   -2,  -20,  -23,  -44,
          -23,   -3,   -1,   15,   10,   -3,  -20,  -22,
          -18,   -6,   16,   25,   16,   17,    4,  -18,
          -17,    3,   22,   22,   22,   11,    8,  -18,
          -24,  -20,   10,    9,   -1,   -9,  -19,  -41,
          -25,   -8,  -25,   -2,   -9,  -25,  -24,  -52,
          -58,  -38,  -13,  -28,  -31,  -27,  -63,  -99>>,
     Bishop |->
       << -23,   -9,  -23,   -5,   -9,  -16,   -5,  -17,
          -14,  -18,   -7,   -1,    4,   -9,  -15,  -27,
          -12,   -3,    8,   10,   13,    3,   -7,  -15,
           -6,    3,   13,   19,    7,   10,   -3,   -9,
           -3,    9,   12,    9,   14,   10,    3,    2,
            2,   -8,    0,   -1,   -2,    6,    0,    4,
           -8,   -4,    7,  -12,   -3,  -13,   -4,  -14,
          -14,  -21,  -11,   -8,   -7,   -9,  -17,  -24>>,
     Rook |->
       <<  -9,    2,    3,   -1,   -5,  -13,    4,  -20,
           -6,   -6,    0,    2,   -9,   -9,  -11,   -3,
           -4,    0,   -5,   -1,   -7,  -12,   -8,  -16,
            3,    5,    8,    4,   -5,   -6,   -8,  -11,
            4,    3,   13,    1,    2,    1,   -1,    2,
            7,    7,    7,    5,    4,   -3,   -5,   -3,
           11,   13,   13,   11,   -3,    3,    8,    3,
           13,   10,   18,   15,   12,   12,    8,    5>>,
     Queen |->
       << -33,  -28,  -22,  -43,   -5,  -32,  -20,  -41,
          -22,  -23,  -30,  -16,  -16,  -23,  -36,  -32,
          -16,  -27,   15,    6,    9,   17,   10,    5,
          -18,   28,   19,   47,   31,   34,   39,   23,
            3,   22,   24,   45,   57,   40,   57,   36,
          -20,    6,    9,   49,   47,   35,   19,    9,
          -17,   20,   32,   41,   58,   25,   30,    0,
           -9,   22,   22,   27,   27,   19,   10,   20>>,
     King |->
       << -53,  -34,  -21,  -11,  -28,  -14,  -24,  -43,
          -27,  -11,    4,   13,   14,    4,   -5,  -17,
          -19,   -3,   11,   21,   23,   16,    7,   -9,
          -18,   -4,   21,   24,   27,   23,    9,  -11,
           -8,   22,   24,   27,   26,   33,   26,    3,
           10,   17,   23,   15,   20,   45,   44,   13,
          -12,   17,   14,   17,   17,   38,   23,   11,
          -74,  -35,  -18,  -18,  -11,   15,    4,  -17>>]

\* MIDGAME_<PIECE>_VALUE[index]: positional value plus material value
MIDGAME_VALUE(piece, index) ==
    MIDGAME_POSITION_VALUE[piece][index + 1] + midgame_material_values(piece)

\* ENDGAME_<PIECE>_VALUE[index]
ENDGAME_VALUE(piece, index) ==
    ENDGAME_POSITION_VALUE[piece][index + 1] + endgame_material_values(piece)

\* i ^ 56 on a square index: the same file on the mirrored rank
Xor56(i) == (7 - (i \div 8)) * 8 + (i % 8)

\* The table index taken as the absolute square for both sides to move
TableIndex_absolute(pos, i) == i

\* The index a piece on square i is looked up at, chosen by the side to move
TableIndex(pos, i) == IF pos.side_to_move = "White" THEN i ELSE Xor56(i)

\* phase: knights + bishops + 2 * rooks + 4 * queens of both colours by
\* popcnt, clamped for early promotions
phase(pos) ==
    LET popcnt(piece) ==
            Cardinality({i \in 0 .. 63 :
                            pos.sq[i + 1] # None /\ pos.sq[i + 1][1].piece = piece})
        n == popcnt("Knight") + popcnt("Bishop") + 2 * popcnt("Rook") + 4 * popcnt("Queen")
    IN IF n < 24 THEN n ELSE 24

\* The closure mapped over the squares: the (mg, eg) pair of square i
SquareScore(pos, i) ==
    IF pos.sq[i + 1] = None THEN [mg |-> 0, eg |-> 0]
    ELSE LET piece == pos.sq[i + 1][1].piece
             index == TableIndex(pos, i)
         IN IF pos.sq[i + 1][1].color = pos.side_to_move
            THEN [mg |-> MIDGAME_VALUE(piece, index), eg |-> ENDGAME_VALUE(piece, index)]
            ELSE [mg |-> -MIDGAME_VALUE(piece, index), eg |-> -ENDGAME_VALUE(piece, index)]

\* .reduce(|(mg_acc, eg_acc), (mg_score, eg_score)| ...), one component f
\* ("mg" or "eg") over the squares lo .. hi: the sum and the lowest and the
\* highest value the accumulator takes on the way, as integers.  The i16
\* accumulator overflows exactly when one of these leaves the i16 range,
\* and holds the wrapped sum at the end.
RECURSIVE Reduce(_, _, _, _)
Reduce(pos, f, lo, hi) ==
    IF lo = hi
    THEN LET s == SquareScore(pos, lo)[f] IN [sum |-> s, low |-> s, high |-> s]
    ELSE LET mid == (lo + hi) \div 2
             a == Reduce(pos, f, lo, mid)
             b == Reduce(pos, f, mid + 1, hi)
         IN [sum |-> a.sum + b.sum,
             low |-> IF a.low <= a.sum + b.low THEN a.low ELSE a.sum + b.low,
             high |-> IF a.high >= a.sum + b.high THEN a.high ELSE a.sum + b.high]

\* i16 division: truncates toward zero
TruncDiv(a, b) == IF a >= 0 THEN a \div b ELSE -((-a) \div b)

\* piece_table_eval over the builds: the value computed with wrapping i16
\* arithmetic, or a panic when an i16 operation overflows and overflow
\* checks are compiled in
piece_table_eval(pos) ==
    LET inverse_phase == 24 - phase(pos)
        mg_acc == Reduce(pos, "mg", 0, 63)
        eg_acc == Reduce(pos, "eg", 0, 63)
        mg == Wrap16(mg_acc.sum) * phase(pos)
        eg == Wrap16(eg_acc.sum) * inverse_phase
        total == Wrap16(mg) + Wrap16(eg)
        overflow == \/ ~InI16(mg_acc.low) \/ ~InI16(mg_acc.high)
                    \/ ~InI16(eg_acc.low) \/ ~InI16(eg_acc.high)
                    \/ ~InI16(mg) \/ ~InI16(eg) \/ ~InI16(total)
    IN {[panic |-> FALSE, val |-> cp(TruncDiv(Wrap16(total), 24))]}
           \cup (IF overflow THEN {[panic |-> TRUE, val |-> cp(0)]} ELSE {})

\* The same placement with the other side to move
SwapSide(pos) == [pos EXCEPT !.side_to_move = Opp(pos.side_to_move)]

----------------------------------------------------------------------------
(* The evaluator applied to positions drawn from a bounded family *)

\* At most this many pieces are missing from one side's starting material
MaxRemoved == 3

\* Board::default(): the starting placement
StartPlacement ==
    LET BackRank == <<"Rook", "Knight", "Bishop", "Queen", "King", "Bishop", "Knight", "Rook">>
    IN [k \in 1 .. 64 |->
           IF k <= 8 THEN Some([piece |-> BackRank[k], color |-> "White"])
           ELSE IF k <= 16 THEN Some([piece |-> "Pawn", color |-> "White"])
           ELSE IF k <= 48 THEN None
           ELSE IF k <= 56 THEN Some([piece |-> "Pawn", color |-> "Black"])
           ELSE Some([piece |-> BackRank[k - 56], color |-> "Black"])]

\* The placements evaluated: the starting position with up to MaxRemoved of
\* one side's queen, rooks, queen's knight and queen's bishop removed, and
\* kings on E1 and E8 with at most one more piece, on a square from which
\* it attacks neither king
Placements ==
    LET Removable == {59, 56, 63, 57, 58}
        Gone == {h \in SUBSET Removable : Cardinality(h) <= MaxRemoved}
        Without(gone) ==
            [k \in 1 .. 64 |-> IF (k - 1) \in gone THEN None ELSE StartPlacement[k]]
        KingsAnd(piece, color, i) ==
            [k \in 1 .. 64 |->
                IF k - 1 = 4 THEN Some([piece |-> "King", color |-> "White"])
                ELSE IF k - 1 = 60 THEN Some([piece |-> "King", color |-> "Black"])
                ELSE IF k - 1 = i THEN Some([piece |-> piece, color |-> color])
                ELSE None]
        ExtraSquares == {8, 15, 26, 48, 55}
    IN {Without(g) : g \in Gone}
           \cup {Without({Xor56(i) : i \in g}) : g \in Gone}
           \cup {KingsAnd(p, c, i) : p \in {"Pawn", "Knight", "Bishop", "Rook", "Queen"},
                                     c \in {"White", "Black"}, i \in ExtraSquares}
           \cup {KingsAnd("King", "White", 4)}

InitEval ==
    /\ \E p \in Placements, c \in {"White", "Black"} :
          ev = [op |-> "position", pos |-> [sq |-> p, side_to_move |-> c]]
    /\ tm = NoRes /\ lp = NoRes /\ lk = NoRes /\ qs = NoRes
    /\ sa = Score_min /\ sb = Score_min /\ sc = Score_min /\ sres = NoRes
    /\ SerialIdle
    /\ NodeIdle
    /\ EngineIdle

\* eval_heuristic(&board)
EvalBoard ==
    /\ ev.op = "position"
    /\ \E o \in piece_table_eval(ev.pos) :
          ev' = [op |-> "eval", pos |-> ev.pos, res |-> o]
    /\ UNCHANGED <<tm, lp, lk, qs, scoreVars, serialVars, nodeVars, engineVars>>

\* eval_heuristic of the same placement with the side to move swapped
EvalSwapped ==
    /\ ev.op = "eval"
    /\ \E o \in piece_table_eval(SwapSide(ev.pos)) :
          ev' = [op |-> "both", pos |-> ev.pos, res |-> ev.res, swapped |-> o]
    /\ UNCHANGED <<tm, lp, lk, qs, scoreVars, serialVars, nodeVars, engineVars>>

\* eval_heuristic of the colour-mirrored position: the piece of square i on
\* square i ^ 56 in the other colour, and the other side to move
EvalMirrored ==
    /\ ev.op = "eval"
    /\ LET Mirror(pos) ==
               [sq |-> [k \in 1 .. 64 |->
                           LET x == pos.sq[Xor56(k - 1) + 1]
                           IN IF x = None THEN None
                              ELSE Some([piece |-> x[1].piece, color |-> Opp(x[1].color)])],
                side_to_move |-> Opp(pos.side_to_move)]
       IN ev' = [op |-> "mirror", pos |-> ev.pos, res |-> ev.res,
                 mirrored |-> piece_table_eval(Mirror(ev.pos))]
    /\ UNCHANGED <<tm, lp, lk, qs, scoreVars, serialVars, nodeVars, engineVars>>

NextEval == EvalBoard \/ EvalSwapped \/ EvalMirrored

SpecEval == InitEval /\ [][NextEval]_vars

----------------------------------------------------------------------------
(* Engine::search's loop with no deadline and no depth limit (go infinite   *)
(* after set_position), the passes evaluated serially, on positions whose   *)
(* whole game tree ends within a few plies                                  *)

\* Bound of the trees the loop runs on
MaxLoopPly == 2

\* The largest value of current_search_depth: u8
U8Max == 255

\* Positions with a legal move whose every line ends in Checkmate: by quiet
\* moves, or by the capture that is the only legal move
LoopBoards ==
    {b \in MateTrees(MaxLoopPly, "White") : b.status = "Ongoing"}
        \cup {OngoingBoard(h, "White",
                   <<[capture |-> TRUE, next |-> TerminalBoard("Checkmate", "Black")]>>) :
                h \in HeurVals}

InitLoop ==
    /\ \E b \in LoopBoards :
          lp = [op |-> "search", board |-> b, current_search_depth |-> 1,
                best_move_found |-> None, passes |-> 0, out |-> <<>>,
                state |-> "running", wrapped |-> FALSE]
    /\ ev = NoRes /\ tm = NoRes /\ lk = NoRes /\ qs = NoRes
    /\ sa = Score_min /\ sb = Score_min /\ sc = Score_min /\ sres = NoRes
    /\ SerialIdle
    /\ NodeIdle
    /\ EngineIdle

\* One iteration of the loop in Engine::search with stop_time = None and
\* depth_limit = None: the pass is never terminated early; a pass without a
\* move returns the error, otherwise the info line is printed and
\* current_search_depth += 1 in u8, which at 255 panics when overflow checks
\* are compiled in and wraps to 0 otherwise.  The run is followed for one
\* pass beyond the wrap.
LoopPass ==
    /\ lp.op = "search" /\ lp.state = "running"
    /\ lp.passes <= U8Max
    /\ LET eval == evaluate_board(lp.board, Score_min, Score_max, 0,
                                  lp.current_search_depth, FALSE)
           printed == [lp EXCEPT !.out = Append(@, [depth |-> lp.current_search_depth]),
                                 !.best_move_found = eval.mv, !.passes = @ + 1]
       IN IF eval.mv = None
          THEN lp' = [lp EXCEPT !.state = "error", !.passes = @ + 1]
          ELSE IF lp.current_search_depth < U8Max
          THEN lp' = [printed EXCEPT !.current_search_depth = @ + 1]
          ELSE \/ lp' = [printed EXCEPT !.state = "panic"]
               \/ lp' = [printed EXCEPT !.current_search_depth = 0, !.wrapped = TRUE]
    /\ UNCHANGED <<ev, tm, lk, qs, scoreVars, serialVars, nodeVars, engineVars>>

NextLoop == LoopPass

SpecLoop == InitLoop /\ [][NextLoop]_vars

----------------------------------------------------------------------------
(* Engine: its operations, with the parallel search as a state machine *)

\* Bound of the modelled clock
MaxNow == 2

\* Bound of the number of Engine calls in a run
MaxCalls == 3

\* What the Engine's operations never touch
other == <<scoreVars, serialVars, nodeVars, auxVars>>

\* SLACK_TIME, in milliseconds
SLACK_TIME == 20

\* The last instant the platform's Instant represents, in milliseconds of
\* the modelled clock: Instant::checked_add returns None beyond it
MaxInstant == 10000

\* UciSearchOptions, as far as the Engine reads them
Options(inf, mt, wt, bt, wi, bi, mtg, d) ==
    [infinite |-> inf, movetime |-> mt, wtime |-> wt, btime |-> bt,
     winc |-> wi, binc |-> bi, movestogo |-> mtg, depth |-> d]

\* Engine::calculate_stop_time at Instant::now() = t on a board with side c to
\* move: the fields it leaves set, with the Err of `checked_add(..)
\* .context(..)?` or the panic it dies with (Duration's Sub and Div panic on
\* underflow and on a zero divisor; unimplemented!())
calculate_stop_time(o, c, t, start0, stop0) ==
    LET Ok(st) == IF st <= MaxInstant
                  THEN [tag |-> "ok", start_time |-> Some(t), stop_time |-> Some(st)]
                  ELSE [tag |-> "err", start_time |-> Some(t), stop_time |-> stop0]
        Panic(why) == [tag |-> "panic", why |-> why, start_time |-> Some(t),
                       stop_time |-> stop0]
        Arithmetic == Panic("arithmetic")
        Unimplemented == Panic("unimplemented")
        time == IF c = "White" THEN o.wtime ELSE o.btime
        inc == IF c = "White" THEN o.winc ELSE o.binc
    IN
    IF o.infinite THEN [tag |-> "ok", start_time |-> start0, stop_time |-> stop0]
    ELSE IF o.movetime # None THEN
        (IF o.movetime[1] < SLACK_TIME THEN Arithmetic
         ELSE Ok(t + (o.movetime[1] - SLACK_TIME)))
    ELSE IF time # None THEN
        (IF o.movestogo # None THEN
            (IF o.movestogo[1] = 0 THEN Arithmetic
             ELSE IF time[1] \div o.movestogo[1] < SLACK_TIME THEN Arithmetic
             ELSE Ok(t + ((time[1] \div o.movestogo[1]) - SLACK_TIME)))
         ELSE IF inc # None THEN
            (IF (time[1] \div 20) + (inc[1] \div 2) < SLACK_TIME THEN Arithmetic
             ELSE Ok(t + (((time[1] \div 20) + (inc[1] \div 2)) - SLACK_TIME)))
         ELSE Unimplemented)
    ELSE Unimplemented

\* The deadline noticed one millisecond late
Gate_late == stop_time # None /\ now > stop_time[1] + 1

\* stop_time.map(|st| Instant::now() > st).unwrap_or_default()
Gate == stop_time # None /\ now > stop_time[1]

\* The board reached from b along the moves of path p
RECURSIVE BoardAt(_, _)
BoardAt(b, p) == IF p = <<>> THEN b ELSE BoardAt(make_move_new(b, Head(p)), Tail(p))

Front(p) == SubSeq(p, 1, Len(p) - 1)

Last(p) == p[Len(p)]

\* The cells and workers of an expanding node: one worker per move the
\* iterator yields (every legal move, or the captures in quiescence)
Worker(wpc, e) == [pc |-> wpc, eval |-> e]

Frame(e, b, beta) ==
    [kind |-> e.kind, beta |-> beta, best |-> e.best, alpha |-> e.alpha,
     found |-> None,
     wk |-> [i \in (IF e.kind = "interior" THEN 1 .. Len(b.moves) ELSE CaptureIdx(b))
                |-> Worker("new", BE_min)]]

\* The boards a position command can set up: FENs of the modelled positions
Fens == {StartBoard, MateBoard, CaptureBoard, ExchangeBoard, LosingBoard}

Init ==
    /\ AuxIdle
    /\ sa = Score_min /\ sb = Score_min /\ sc = Score_min /\ sres = NoRes
    /\ SerialIdle
    /\ NodeIdle
    /\ EngineIdle

\* Engine::set_debug
SetDebug(d) ==
    /\ pc = "idle"
    /\ calls < MaxCalls
    /\ calls' = calls + 1
    /\ debug' = d
    /\ ret' = [op |-> "set_debug"]
    /\ UNCHANGED <<other, board, start_time, stop_time, current_search_depth, depth_limit,
                   best_move_found, now, pc, nodes, pass_eval, out, passExpired, cleanMv, setup, passes>>

\* Engine::reset_game
ResetGame ==
    /\ pc = "idle"
    /\ calls < MaxCalls
    /\ calls' = calls + 1
    /\ board' = StartBoard
    /\ start_time' = None
    /\ stop_time' = None
    /\ current_search_depth' = 0
    /\ depth_limit' = None
    /\ best_move_found' = None
    /\ ret' = [op |-> "reset_game"]
    /\ setup' = "reset_game"
    /\ UNCHANGED <<other, debug, now, pc, nodes, pass_eval, out, passExpired, cleanMv, passes>>

\* set_position resetting the search parameters before the FEN is parsed
SetPositionErr_reset ==
    /\ pc = "idle"
    /\ calls < MaxCalls
    /\ calls' = calls + 1
    /\ start_time' = None
    /\ stop_time' = None
    /\ current_search_depth' = 1
    /\ best_move_found' = None
    /\ ret' = [op |-> "set_position", ok |-> FALSE]
    /\ UNCHANGED <<other, debug, board, depth_limit, now, pc, nodes, pass_eval, out,
                   passExpired, cleanMv, setup, passes>>

\* Engine::set_position with a FEN that does not parse: Err, by `?`, before
\* any field is written
SetPositionErr ==
    /\ pc = "idle"
    /\ calls < MaxCalls
    /\ calls' = calls + 1
    /\ ret' = [op |-> "set_position", ok |-> FALSE]
    /\ UNCHANGED <<other, engineFields, now, pc, nodes, pass_eval, out, passExpired, cleanMv, setup, passes>>

\* Engine::set_position with a board (None is Board::default()) and the
\* moves played from it, followed by reset_search_params
SetPosition(fen, moves) ==
    /\ pc = "idle"
    /\ calls < MaxCalls
    /\ calls' = calls + 1
    /\ LET b == BoardAt(fen, moves)
       IN /\ b.status = "Ongoing" => EdgePly(b) >= 1
          /\ board' = b
    /\ start_time' = None
    /\ stop_time' = None
    /\ current_search_depth' = 1
    /\ best_move_found' = None
    /\ ret' = [op |-> "set_position", ok |-> TRUE, board |-> BoardAt(fen, moves)]
    /\ setup' = "set_position"
    /\ UNCHANGED <<other, debug, depth_limit, now, pc, nodes, pass_eval, out, passExpired,
                   cleanMv, passes>>

\* Engine::search up to the loop: calculate_stop_time(&options)?, then
\* depth_limit = options.depth
SearchCall(o) ==
    /\ pc = "idle"
    /\ calls < MaxCalls
    /\ calls' = calls + 1
    /\ LET r == calculate_stop_time(o, board.stm, now, start_time, stop_time)
       IN /\ start_time' = r.start_time
          /\ stop_time' = r.stop_time
          /\ IF r.tag = "panic"
             THEN /\ pc' = "panicked"
                  /\ UNCHANGED <<depth_limit, setup>>
                  /\ ret' = [op |-> "search", running |-> TRUE, infinite |-> o.infinite,
                             after |-> setup]
             ELSE IF r.tag = "err"
             THEN /\ pc' = "idle"
                  /\ UNCHANGED depth_limit
                  /\ setup' = "search"
                  /\ ret' = [op |-> "search", running |-> FALSE, ok |-> FALSE,
                             err |-> "Failed to add provided movetime to current instant",
                             after |-> setup]
             ELSE /\ pc' = "call"
                  /\ depth_limit' = o.depth
                  /\ UNCHANGED setup
                  /\ ret' = [op |-> "search", running |-> TRUE, infinite |-> o.infinite,
                             after |-> setup]
    /\ out' = <<>>
    /\ cleanMv' = None
    /\ passes' = 0
    /\ UNCHANGED <<other, debug, board, current_search_depth, best_move_found, now, nodes,
                   pass_eval, passExpired>>

\* The loop's call self.evaluate_board(&self.board, Score::min(), Score::max(), 0)
RootCall ==
    /\ pc = "call"
    /\ \/ Gate
       \/ /\ current_search_depth <= MaxPly
          /\ board.status = "Ongoing" => current_search_depth <= EdgePly(board)
    /\ LET e == evaluate_board_entry(board, Score_min, Score_max, 0,
                                     current_search_depth, Gate)
       IN IF e.tag = "ret"
          THEN /\ pass_eval' = e.eval
               /\ pc' = "evaluated"
               /\ nodes' = <<>>
               /\ passExpired' = e.eval.terminated_early
          ELSE /\ nodes' = [q \in {<<>>} |-> Frame(e, board, Score_max)]
               /\ pc' = "running"
               /\ passExpired' = FALSE
               /\ UNCHANGED pass_eval
    /\ passes' = passes + 1
    /\ UNCHANGED <<other, calls, engineFields, now, out, ret, cleanMv, setup>>

\* The clock passes; only a pending deadline observes it
Tick ==
    /\ pc \in {"call", "running", "evaluated"}
    /\ stop_time # None
    /\ now <= stop_time[1]
    /\ now < MaxNow
    /\ now' = now + 1
    /\ UNCHANGED <<other, calls, engineFields, pc, nodes, pass_eval, out, ret, passExpired, cleanMv, setup, passes>>

SetWorker(p, i, w) == [nodes EXCEPT ![p].wk[i] = w]

\* par_bridge hands a move of the iterator to a worker, unless the reduction
\* is already full (some closure returned Some), and the closure runs up to
\* the recursive call: next = board.make_move_new(mv), a = *alpha.read(),
\* then the child is entered with (beta.flip(), a.flip(), depth + 1); a child
\* that returns at once leaves its record with the worker.  The moves are
\* handed out in generation order, but the workers holding them reach
\* alpha.read() in any order.  A closure whose move was handed out before
\* the reduction became full still runs; its steps up to here read alpha and
\* the clock only, so they commute with the step that made the reduction
\* full and are taken before it.
Begin(p, i) ==
    /\ pc = "running"
    /\ nodes[p].wk[i].pc = "new"
    /\ nodes[p].found = None
    /\ LET f == nodes[p]
           b == BoardAt(board, p)
           next == make_move_new(b, i)
           a == f.alpha
           e == IF f.kind = "interior"
                THEN evaluate_board_entry(next, flip(f.beta), flip(a), Len(p) + 1,
                                          current_search_depth, Gate)
                ELSE quiescence_entry(next, flip(f.beta), flip(a), Len(p) + 1, Gate)
       IN IF e.tag = "ret"
          THEN /\ nodes' = SetWorker(p, i, Worker("got", from_child(e.eval, Move(b, i))))
               /\ passExpired' = (passExpired \/ e.eval.terminated_early)
          ELSE /\ nodes' = [q \in DOMAIN nodes \cup {Append(p, i)} |->
                               IF q = Append(p, i) THEN Frame(e, next, flip(a))
                               ELSE IF q = p THEN [f EXCEPT !.wk[i] = Worker("called", BE_min)]
                               ELSE nodes[q]]
               /\ UNCHANGED passExpired
    /\ UNCHANGED <<other, calls, engineFields, now, pc, pass_eval, out, ret, cleanMv, setup, passes>>

\* What a worker does once its comparisons against alpha are over: the
\* closure's `if eval.score >= beta`, a local test
AfterAlpha(f, e) == IF Ge(e.score, f.beta) THEN "cut" ELSE "done"

\* A closure returns Some(x): find_map_any keeps one of the values found
Found(f, x) == IF f.found = None THEN {Some(x)} ELSE {f.found, Some(x)}

\* evaluate_board's closure: `if eval > *best.read()`; the read guard is
\* dropped at the end of the condition
CheckBest(p, i) ==
    /\ pc = "running"
    /\ nodes[p].kind = "interior"
    /\ nodes[p].wk[i].pc = "got"
    /\ LET f == nodes[p]
           e == f.wk[i].eval
       IN nodes' = SetWorker(p, i,
                      Worker(IF BE_gt(e, f.best) THEN "wbest" ELSE AfterAlpha(f, e), e))
    /\ UNCHANGED <<other, calls, engineFields, now, pc, pass_eval, out, ret, passExpired, cleanMv, setup, passes>>

\* evaluate_board_quiescence's closure after the child returned:
\* `if eval.score >= beta { return Some(eval) }`, else `if eval > *best.read()`
QCheckBest(p, i) ==
    /\ pc = "running"
    /\ nodes[p].kind = "quiescence"
    /\ nodes[p].wk[i].pc = "got"
    /\ LET f == nodes[p]
           e == f.wk[i].eval
       IN IF Ge(e.score, f.beta)
          THEN \E x \in Found(f, e) :
                  nodes' = [nodes EXCEPT ![p].found = x,
                                         ![p].wk[i] = Worker("done", e)]
          ELSE nodes' = SetWorker(p, i,
                           Worker(IF BE_gt(e, f.best) THEN "wbest" ELSE "ralpha", e))
    /\ UNCHANGED <<other, calls, engineFields, now, pc, pass_eval, out, ret, passExpired, cleanMv, setup, passes>>

\* best.write().overwrite(eval)
WriteBest(p, i) ==
    /\ pc = "running"
    /\ nodes[p].wk[i].pc = "wbest"
    /\ LET f == nodes[p]
           e == f.wk[i].eval
       IN nodes' = [nodes EXCEPT ![p].best = overwrite(f.best, e),
                                 ![p].wk[i] = Worker("ralpha", e)]
    /\ UNCHANGED <<other, calls, engineFields, now, pc, pass_eval, out, ret, passExpired, cleanMv, setup, passes>>

\* `if eval.score > *alpha.read()`
ReadAlpha(p, i) ==
    /\ pc = "running"
    /\ nodes[p].wk[i].pc = "ralpha"
    /\ LET f == nodes[p]
           e == f.wk[i].eval
           after == IF f.kind = "interior" THEN AfterAlpha(f, e) ELSE "done"
       IN nodes' = SetWorker(p, i,
                      Worker(IF Gt(e.score, f.alpha) THEN "walpha" ELSE after, e))
    /\ UNCHANGED <<other, calls, engineFields, now, pc, pass_eval, out, ret, passExpired, cleanMv, setup, passes>>

\* `*alpha.write() = eval.score`
WriteAlpha(p, i) ==
    /\ pc = "running"
    /\ nodes[p].wk[i].pc = "walpha"
    /\ LET f == nodes[p]
           e == f.wk[i].eval
           after == IF f.kind = "interior" THEN AfterAlpha(f, e) ELSE "done"
       IN nodes' = [nodes EXCEPT ![p].alpha = e.score,
                                 ![p].wk[i] = Worker(after, e)]
    /\ UNCHANGED <<other, calls, engineFields, now, pc, pass_eval, out, ret, passExpired, cleanMv, setup, passes>>

\* evaluate_board's closure at a cutoff: `let best = { *best.read() };
\* return Some(best)`
Cut(p, i) ==
    /\ pc = "running"
    /\ nodes[p].wk[i].pc = "cut"
    /\ LET f == nodes[p]
       IN \E x \in Found(f, f.best) :
             nodes' = [nodes EXCEPT ![p].found = x,
                                    ![p].wk[i] = Worker("done", f.wk[i].eval)]
    /\ UNCHANGED <<other, calls, engineFields, now, pc, pass_eval, out, ret, passExpired, cleanMv, setup, passes>>

\* find_map_any is over when no closure is running and either every move
\* was taken or a value was found
Finished(f) ==
    /\ \A i \in DOMAIN f.wk : f.wk[i].pc \in {"new", "done"}
    /\ f.found # None \/ \A i \in DOMAIN f.wk : f.wk[i].pc = "done"

\* `.find_map_any(..).unwrap_or(*best.read())`
Result(f) == IF f.found # None THEN f.found[1] ELSE f.best

\* An expanding node below the root returns to the closure that called it:
\* eval = BoardEvaluation::from_child(.., mv)
ChildReturn(p) ==
    /\ pc = "running"
    /\ p # <<>>
    /\ Finished(nodes[p])
    /\ LET q == Front(p)
           i == Last(p)
           e == from_child(Result(nodes[p]), Move(BoardAt(board, q), i))
       IN nodes' = [r \in DOMAIN nodes \ {p} |->
                       IF r = q THEN [nodes[q] EXCEPT !.wk[i] = Worker("got", e)]
                       ELSE nodes[r]]
    /\ UNCHANGED <<other, calls, engineFields, now, pc, pass_eval, out, ret, passExpired, cleanMv, setup, passes>>

\* The root returns to search's loop
RootReturn ==
    /\ pc = "running"
    /\ <<>> \in DOMAIN nodes
    /\ Finished(nodes[<<>>])
    /\ pass_eval' = Result(nodes[<<>>])
    /\ nodes' = <<>>
    /\ pc' = "evaluated"
    /\ UNCHANGED <<other, calls, engineFields, now, out, ret, passExpired, cleanMv, setup, passes>>

\* An info line: its depth field.  Its score, pv and seldepth are fields of
\* the pass record, which the claims read from pass_eval; its time is not
\* modelled.
Info(e, d) == [depth |-> d]

\* The depth limit test with < in place of ==
AtDepthLimit_past == depth_limit # None /\ depth_limit[1] < current_search_depth

\* self.depth_limit.map(|l| l == self.current_search_depth).unwrap_or_default()
AtDepthLimit == depth_limit # None /\ depth_limit[1] = current_search_depth

\* search's loop body after the evaluation, on a pass that was not
\* terminated early and has a move: the info line, best_move_found, then
\* the return on the depth limit
PassCleanLimit ==
    /\ pc = "evaluated"
    /\ ~pass_eval.terminated_early
    /\ pass_eval.mv # None
    /\ AtDepthLimit
    /\ out' = Append(out, Info(pass_eval, current_search_depth))
    /\ best_move_found' = pass_eval.mv
    /\ cleanMv' = pass_eval.mv
    /\ ret' = [op |-> "search", running |-> FALSE, ok |-> TRUE,
               mv |-> pass_eval.mv[1], via |-> "depth", after |-> ret.after]
    /\ pc' = "idle"
    /\ pass_eval' = BE_min
    /\ passExpired' = FALSE
    /\ setup' = "search"
    /\ UNCHANGED <<other, calls, debug, board, start_time, stop_time, current_search_depth,
                   depth_limit, now, nodes, passes>>

\* ... or `self.current_search_depth += 1` and the next turn of the loop
PassCleanDeeper ==
    /\ pc = "evaluated"
    /\ ~pass_eval.terminated_early
    /\ pass_eval.mv # None
    /\ ~AtDepthLimit
    /\ out' = Append(out, Info(pass_eval, current_search_depth))
    /\ best_move_found' = pass_eval.mv
    /\ cleanMv' = pass_eval.mv
    /\ current_search_depth' = current_search_depth + 1
    /\ pc' = "call"
    /\ UNCHANGED <<other, calls, debug, board, start_time, stop_time, depth_limit, now, nodes,
                   pass_eval, ret, passExpired, setup, passes>>

\* `eval.mv.context("Asked to search on a position with no legal moves")?`
PassNoMove ==
    /\ pc = "evaluated"
    /\ ~pass_eval.terminated_early
    /\ pass_eval.mv = None
    /\ ret' = [op |-> "search", running |-> FALSE, ok |-> FALSE,
               err |-> "Asked to search on a position with no legal moves",
               after |-> ret.after]
    /\ pc' = "idle"
    /\ pass_eval' = BE_min
    /\ passExpired' = FALSE
    /\ setup' = "search"
    /\ UNCHANGED <<other, calls, engineFields, now, nodes, out, cleanMv, passes>>

\* The else branch: `return self.best_move_found.context("Failed to search
\* even a single depth level")`
PassEarly ==
    /\ pc = "evaluated"
    /\ pass_eval.terminated_early
    /\ ret' = IF best_move_found # None
              THEN [op |-> "search", running |-> FALSE, ok |-> TRUE,
                    mv |-> best_move_found[1], via |-> "early", after |-> ret.after]
              ELSE [op |-> "search", running |-> FALSE, ok |-> FALSE,
                    err |-> "Failed to search even a single depth level",
                    after |-> ret.after]
    /\ pc' = "idle"
    /\ pass_eval' = BE_min
    /\ passExpired' = FALSE
    /\ setup' = "search"
    /\ UNCHANGED <<other, calls, engineFields, now, nodes, out, cleanMv, passes>>

\* The search options a go command gives
MaxDepthOpt == 2

SearchOptions ==
    {Options(inf, mt, None, None, None, None, None, d) :
        inf \in BOOLEAN,
        mt \in {None, Some(SLACK_TIME - 1), Some(SLACK_TIME),
                 Some(MaxInstant + SLACK_TIME + 1)},
        d \in {None} \cup {Some(k) : k \in 1 .. MaxDepthOpt}}

SetDebugCall == \E d \in BOOLEAN : SetDebug(d)

SetPositionCall ==
    \E fen \in Fens : \E moves \in {<<>>} \cup {<<i>> : i \in 1 .. Len(fen.moves)} :
        SetPosition(fen, moves)

Search == \E o \in SearchOptions : SearchCall(o)

BeginStep == \E p \in DOMAIN nodes : \E i \in DOMAIN nodes[p].wk : Begin(p, i)

CheckBestStep == \E p \in DOMAIN nodes : \E i \in DOMAIN nodes[p].wk : CheckBest(p, i)

QCheckBestStep == \E p \in DOMAIN nodes : \E i \in DOMAIN nodes[p].wk : QCheckBest(p, i)

WriteBestStep == \E p \in DOMAIN nodes : \E i \in DOMAIN nodes[p].wk : WriteBest(p, i)

ReadAlphaStep == \E p \in DOMAIN nodes : \E i \in DOMAIN nodes[p].wk : ReadAlpha(p, i)

WriteAlphaStep == \E p \in DOMAIN nodes : \E i \in DOMAIN nodes[p].wk : WriteAlpha(p, i)

CutStep == \E p \in DOMAIN nodes : \E i \in DOMAIN nodes[p].wk : Cut(p, i)

ChildReturnStep == \E p \in DOMAIN nodes : ChildReturn(p)

Next ==
    \/ SetDebugCall
    \/ ResetGame
    \/ SetPositionErr
    \/ SetPositionCall
    \/ Search
    \/ RootCall
    \/ Tick
    \/ BeginStep
    \/ CheckBestStep
    \/ QCheckBestStep
    \/ WriteBestStep
    \/ ReadAlphaStep
    \/ WriteAlphaStep
    \/ CutStep
    \/ ChildReturnStep
    \/ RootReturn
    \/ PassCleanLimit
    \/ PassCleanDeeper
    \/ PassNoMove
    \/ PassEarly

Spec == Init /\ [][Next]_vars

\* The steps search takes by itself once it was called; the thread pool
\* keeps running them
SearchProgress ==
    \/ RootCall
    \/ BeginStep
    \/ CheckBestStep
    \/ QCheckBestStep
    \/ WriteBestStep
    \/ ReadAlphaStep
    \/ WriteAlphaStep
    \/ CutStep
    \/ ChildReturnStep
    \/ RootReturn
    \/ PassCleanLimit
    \/ PassCleanDeeper
    \/ PassNoMove
    \/ PassEarly

SpecFair == Spec /\ WF_vars(SearchProgress)

----------------------------------------------------------------------------
(* Engine::calculate_stop_time applied to go options drawn from a bounded   *)
(* set.  Durations are in milliseconds; the values are multiples of the     *)
(* divisors, so the modelled divisions are exact.                           *)

\* The go options: every combination of infinite, movetime, the two clocks,
\* the two increments and movestogo
TimeOptions ==
    {Options(inf, mt, wt, bt, wi, bi, mtg, None) :
        inf \in BOOLEAN,
        mt \in {None, Some(SLACK_TIME - 1), Some(100), Some(MaxInstant + SLACK_TIME + 1)},
        wt \in {None, Some(0), Some(400), Some(1000)},
        bt \in {None, Some(2000)},
        wi \in {None, Some(0), Some(40)},
        bi \in {None, Some(200)},
        mtg \in {None, Some(0), Some(1), Some(40)}}

\* The engine is idle with either side to move, at any instant, with no
\* deadline or with the deadline an earlier search left
InitTime ==
    /\ \E o \in TimeOptions, c \in {"White", "Black"}, t \in 0 .. MaxNow,
          st \in {None, Some(0)} :
          tm = [op |-> "go", o |-> o, stm |-> c, now |-> t, stop_time |-> st]
    /\ ev = NoRes /\ lp = NoRes /\ lk = NoRes /\ qs = NoRes
    /\ sa = Score_min /\ sb = Score_min /\ sc = Score_min /\ sres = NoRes
    /\ SerialIdle
    /\ NodeIdle
    /\ EngineIdle

\* self.calculate_stop_time(&options)
CalcStopTime ==
    /\ tm.op = "go"
    /\ tm' = [op |-> "done", o |-> tm.o, stm |-> tm.stm, now |-> tm.now,
              stop_time |-> tm.stop_time,
              res |-> calculate_stop_time(tm.o, tm.stm, tm.now, None, tm.stop_time)]
    /\ UNCHANGED <<ev, lp, lk, qs, scoreVars, serialVars, nodeVars, engineVars>>

NextTime == CalcStopTime

SpecTime == InitTime /\ [][NextTime]_vars

\* ---------------------------------------------------------------------------
\* The recursion of evaluate_board_quiescence on piece placements: one path
\* of recursive calls, each through a move the masked iterator yields.  The
\* move generator is the external chess library; a superset of its legal
\* moves is used (every piece reaches every square that does not hold a
\* piece of its own side or the opponent's king), so what holds for every
\* move here holds for every legal move.
\* ---------------------------------------------------------------------------
MaxQSquares == 5

\* MoveGen::remove_mask with no square removed
remove_mask_none(moves, mask) == moves

\* MoveGen::remove_mask(mask): no move landing on a square of the mask is
\* iterated
remove_mask(moves, mask) == {mv \in moves : mv.to \notin mask}

InitQuiet ==
    /\ \E sq \in [1 .. MaxQSquares ->
                     {None} \cup {Some([piece |-> p, color |-> c]) :
                                     p \in {"King", "Pawn", "Queen"},
                                     c \in {"White", "Black"}}],
          stm \in {"White", "Black"} :
          /\ \A c \in {"White", "Black"} :
                Cardinality({k \in 1 .. MaxQSquares :
                                sq[k] = Some([piece |-> "King", color |-> c])}) = 1
          /\ qs = [op |-> "quiescence", pos |-> [sq |-> sq, side_to_move |-> stm],
                   depth |-> 0,
                   pieces |-> Cardinality({k \in 1 .. MaxQSquares : sq[k] # None})]
    /\ ev = NoRes /\ tm = NoRes /\ lp = NoRes /\ lk = NoRes
    /\ sa = Score_min /\ sb = Score_min /\ sc = Score_min /\ sres = NoRes
    /\ SerialIdle
    /\ NodeIdle
    /\ EngineIdle

\* One recursive call of the quiescence closure: iter = MoveGen::new_legal,
\* iter.remove_mask(!board.color_combined(!board.side_to_move())), then
\* next = board.make_move_new(mv) entered at depth + 1
QuiesceStep ==
    /\ qs.op = "quiescence"
    /\ LET pos == qs.pos
           Squares == 1 .. MaxQSquares
           color_combined(c) == {k \in Squares : pos.sq[k] # None /\ pos.sq[k][1].color = c}
           us == pos.side_to_move
           new_legal == {[from |-> f, to |-> t] :
                            f \in color_combined(us),
                            t \in {k \in Squares \ color_combined(us) :
                                      pos.sq[k] = None \/ pos.sq[k][1].piece # "King"}}
           iter == remove_mask(new_legal, Squares \ color_combined(Opp(us)))
       IN \E mv \in iter :
             qs' = [qs EXCEPT !.pos = [sq |-> [pos.sq EXCEPT ![mv.to] = pos.sq[mv.from],
                                                            ![mv.from] = None],
                                       side_to_move |-> Opp(us)],
                              !.depth = qs.depth + 1]
    /\ UNCHANGED <<ev, tm, lp, lk, scoreVars, serialVars, nodeVars, engineVars>>

\* The recursion goes on while the closure is handed a move
SpecQuiet == InitQuiet /\ [][QuiesceStep]_vars /\ WF_vars(QuiesceStep)

\* ---------------------------------------------------------------------------
\* The lock protocol of one expanding node: the closure of find_map_any run
\* by MaxWorkers rayon workers over the RwLock cells best and alpha, with the
\* acquisition and the drop of every guard as separate steps.  A child's
\* evaluation is one step that returns some record.
\* ---------------------------------------------------------------------------
MaxWorkers == 2

MaxLockCp == 1

\* The guard a closure asks for at each of its lock expressions:
\* alpha.read() before the recursion, best.read() in `eval > *best.read()`,
\* best.write(), alpha.read() in `eval.score > *alpha.read()`, alpha.write(),
\* and best.read() of the interior cutoff
Wants(wpc) ==
    CASE wpc = "new" -> <<"alpha", "read">>
      [] wpc = "cmp_best" -> <<"best", "read">>
      [] wpc = "w_best" -> <<"best", "write">>
      [] wpc = "cmp_alpha" -> <<"alpha", "read">>
      [] wpc = "w_alpha" -> <<"alpha", "write">>
      [] wpc = "cut" -> <<"best", "read">>

\* parking_lot::RwLock: a write guard excludes every other guard; a reader
\* also waits while a writer is queued on the cell
CanAcquire(g, i) ==
    LET Holds(j, mode) == <<g[1], mode>> \in lk.wk[j].held
        Queued(j) == /\ j # i
                     /\ ~lk.wk[j].inside
                     /\ lk.wk[j].pc \in {"w_best", "w_alpha"}
                     /\ Wants(lk.wk[j].pc)[1] = g[1]
    IN IF g[2] = "write"
       THEN \A j \in DOMAIN lk.wk : ~Holds(j, "read") /\ ~Holds(j, "write")
       ELSE \A j \in DOMAIN lk.wk : ~Holds(j, "write") /\ ~Queued(j)

\* The temporary guard of an `if` condition living to the end of the if block
DropTemporary_atBlockEnd(held, g) == held

\* The temporary guard of an `if` condition is dropped when the condition
\* has been evaluated, before the block is entered
DropTemporary(held, g) == held \ {g}

InitLock ==
    /\ \E k \in {"interior", "quiescence"}, beta \in {cp(MaxLockCp), Score_max} :
          lk = [op |-> "node", kind |-> k, beta |-> beta,
                best |-> IF k = "interior" THEN BE_min ELSE BE_score(cp(0), 0),
                alpha |-> IF k = "interior" THEN Score_min ELSE cp(0),
                found |-> None,
                wk |-> [i \in 1 .. MaxWorkers |->
                           [pc |-> "new", eval |-> BE_min, held |-> {},
                            inside |-> FALSE]]]
    /\ ev = NoRes /\ tm = NoRes /\ lp = NoRes /\ qs = NoRes
    /\ sa = Score_min /\ sb = Score_min /\ sc = Score_min /\ sres = NoRes
    /\ SerialIdle
    /\ NodeIdle
    /\ EngineIdle

\* A closure reaches a lock expression and gets the guard; par_bridge hands
\* out a new move only while the reduction is not full
LockAcquire(i) ==
    /\ lk.op = "node"
    /\ LET w == lk.wk[i]
       IN /\ ~w.inside
          /\ w.pc \in {"new", "cmp_best", "w_best", "cmp_alpha", "w_alpha", "cut"}
          /\ w.pc = "new" => lk.found = None
          /\ CanAcquire(Wants(w.pc), i)
          /\ lk' = [lk EXCEPT !.wk[i] = [w EXCEPT !.held = w.held \cup {Wants(w.pc)},
                                                   !.inside = TRUE]]
    /\ UNCHANGED <<ev, tm, lp, qs, scoreVars, serialVars, nodeVars, engineVars>>

\* The recursive call between `let a = { *alpha.read() }` and the first
\* comparison: the child returns a record, lifted by from_child; in
\* quiescence the cutoff test `eval.score >= beta` follows at once
LockRecurse(i, sc0) ==
    /\ lk.op = "node"
    /\ LET w == lk.wk[i]
           e == from_child(BE_score(sc0, 1), i)
       IN /\ w.pc = "recurse"
          /\ IF lk.kind = "quiescence" /\ Ge(e.score, lk.beta)
             THEN \E x \in Found(lk, e) :
                     lk' = [lk EXCEPT !.found = x,
                                      !.wk[i] = [w EXCEPT !.pc = "done", !.eval = e]]
             ELSE lk' = [lk EXCEPT !.wk[i] = [w EXCEPT !.pc = "cmp_best", !.eval = e]]
    /\ UNCHANGED <<ev, tm, lp, qs, scoreVars, serialVars, nodeVars, engineVars>>

\* The closure uses the guard it holds and drops it
LockRelease(i) ==
    /\ lk.op = "node"
    /\ LET w == lk.wk[i]
           e == w.eval
           g == Wants(w.pc)
           after == IF lk.kind = "interior" THEN AfterAlpha(lk, e) ELSE "done"
           Go(held, wpc) == [w EXCEPT !.pc = wpc, !.held = held, !.inside = FALSE]
       IN /\ w.inside
          /\ CASE w.pc = "new" ->
                    lk' = [lk EXCEPT !.wk[i] = Go(w.held \ {g}, "recurse")]
               [] w.pc = "cmp_best" ->
                    lk' = [lk EXCEPT !.wk[i] =
                              Go(DropTemporary(w.held, g),
                                 IF BE_gt(e, lk.best) THEN "w_best"
                                 ELSE IF lk.kind = "interior" THEN after
                                 ELSE "cmp_alpha")]
               [] w.pc = "w_best" ->
                    lk' = [lk EXCEPT !.best = overwrite(lk.best, e),
                                     !.wk[i] = Go(w.held \ {g}, "cmp_alpha")]
               [] w.pc = "cmp_alpha" ->
                    lk' = [lk EXCEPT !.wk[i] =
                              Go(DropTemporary(w.held, g),
                                 IF Gt(e.score, lk.alpha) THEN "w_alpha" ELSE after)]
               [] w.pc = "w_alpha" ->
                    lk' = [lk EXCEPT !.alpha = e.score,
                                     !.wk[i] = Go(w.held \ {g}, after)]
               [] w.pc = "cut" ->
                    \E x \in Found(lk, lk.best) :
                       lk' = [lk EXCEPT !.found = x,
                                        !.wk[i] = Go(w.held \ {g}, "done")]
    /\ UNCHANGED <<ev, tm, lp, qs, scoreVars, serialVars, nodeVars, engineVars>>

LockStep(i) ==
    \/ LockAcquire(i)
    \/ \E x \in -MaxLockCp .. MaxLockCp : LockRecurse(i, cp(x))
    \/ LockRecurse(i, Score_min)
    \/ LockRelease(i)

NextLock == \E i \in 1 .. MaxWorkers : LockStep(i)

\* rayon runs every closure it started to its end: each worker that can
\* take a step eventually takes one
SpecLock == InitLock /\ [][NextLock]_vars /\ \A i \in 1 .. MaxWorkers : WF_vars(LockStep(i))

----------------------------------------------------------------------------
(* Claims about the serial search (checked under SpecSerial and SpecNode) *)

\* C2: with siblings explored one at a time and no deadline, the score
\* evaluate_board(board, Score::min(), Score::max(), 0) returns is the score
\* of the unpruned negamax of the same tree, mate scores included.
C2_SerialSound == tres.op = "pass" => tres.eval.score = tres.negamax

\* C9: a call of evaluate_board or evaluate_board_quiescence on a Checkmate
\* board returns score Mate(0), on a Stalemate board Centipawns(0), both with
\* mv = None and terminated_early = false, whatever the depth, the window
\* and the clock.
C9_TerminalNodes ==
    (nres.op # "none" /\ nin.bd.status # "Ongoing") =>
        /\ nres.eval.score = (IF nin.bd.status = "Checkmate" THEN mate(0) ELSE cp(0))
        /\ nres.eval.mv = None
        /\ nres.eval.terminated_early = FALSE

\* C9 witness: quiescence entered on a Checkmate board at the deepest ply,
\* after the deadline, with a window that is not the full one
C9_Witness ==
    /\ nres.op = "evaluate_board_quiescence"
    /\ nin.bd.status = "Checkmate"
    /\ nin.gate
    /\ nin.depth = MaxPly
    /\ nin.alpha = cp(0) /\ nin.beta = cp(1)
    /\ nres.eval.score = mate(0)

----------------------------------------------------------------------------
(* Claims about the Engine (checked under Spec) *)

\* C1: whenever search returns Ok(mv), mv is a move MoveGen generates on the
\* Engine's current board.
C1_LegalMove ==
    (ret.op = "search" /\ ~ret.running /\ ret.ok) =>
        /\ ret.mv.from = board
        /\ ret.mv.i \in 1 .. Len(board.moves)

\* C1 witness: a search that is not the first call returns the move kept in
\* best_move_found after a pass that was terminated early
C1_Witness ==
    /\ ret.op = "search" /\ ~ret.running /\ ret.ok
    /\ ret.via = "early"
    /\ calls = MaxCalls
    /\ ret.mv.from = board

\* C3: the score a pass returns at the root, when no node of it hit the
\* time gate, is the score the serial search returns for the same tree.
C3_ParallelEqualsSerial ==
    (pc = "evaluated" /\ ~passExpired) =>
        pass_eval.score =
            evaluate_board(board, Score_min, Score_max, 0, current_search_depth, FALSE).score

\* C4: the root record of a pass is terminated_early whenever some node of
\* that pass hit the time gate.
C4_StickyEarly == (pc = "evaluated" /\ passExpired) => pass_eval.terminated_early

\* C5: when the pass just evaluated is terminated early, search returns
\* without printing an info line and without writing best_move_found, and
\* what it returns is the move of the last clean pass of this search, or the
\* error "Failed to search even a single depth level" if there was none.
C5_VoidPass ==
    [][(pc = "evaluated" /\ pass_eval.terminated_early /\ pc' = "idle") =>
          /\ out' = out
          /\ best_move_found' = best_move_found
          /\ ret'.ok = (cleanMv # None)
          /\ ret'.ok => ret'.mv = cleanMv[1]
          /\ ~ret'.ok => ret'.err = "Failed to search even a single depth level"]_vars

\* C11: a search that follows set_position with depth_limit = d >= 1 and
\* whose passes are all clean never starts a pass beyond d; when it
\* returns on the depth limit it has run exactly d passes, printed exactly d
\* info lines with depth fields 1, 2, ..., d, and returns the move of pass d.
C11_DepthCap ==
    /\ (pc \in {"call", "running", "evaluated"} /\ ret.after = "set_position"
            /\ depth_limit # None /\ depth_limit[1] >= 1) =>
          /\ current_search_depth <= depth_limit[1]
          /\ passes <= depth_limit[1]
          /\ Len(out) <= passes
          /\ \A k \in 1 .. Len(out) : out[k].depth = k
    /\ (ret.op = "search" /\ ~ret.running /\ ret.after = "set_position"
            /\ ret.ok /\ ret.via = "depth") =>
          /\ depth_limit # None
          /\ passes = depth_limit[1]
          /\ Len(out) = depth_limit[1]
          /\ \A k \in 1 .. Len(out) : out[k].depth = k
          /\ current_search_depth = depth_limit[1]
          /\ cleanMv = Some(ret.mv)

\* C11 witness: a search after set_position returns on a depth limit of
\* MaxDepthOpt after as many passes
C11_Witness ==
    /\ ret.op = "search" /\ ~ret.running /\ ret.after = "set_position"
    /\ ret.ok /\ ret.via = "depth"
    /\ depth_limit = Some(MaxDepthOpt)
    /\ passes = MaxDepthOpt
    /\ Len(out) = MaxDepthOpt

\* C12: at every expanding quiescence node, under every interleaving, the
\* record the node would return (the best cell, or a value a closure found)
\* has a score >= stand_pat = eval_heuristic(board); when all captures have
\* been evaluated and every one lifted to a score below stand_pat, the node
\* returns exactly stand_pat with mv = None.
C12_StandPat ==
    \A p \in DOMAIN nodes :
        nodes[p].kind = "quiescence" =>
            LET f == nodes[p]
                stand_pat == eval_heuristic(BoardAt(board, p))
            IN /\ Ge(f.best.score, stand_pat)
               /\ f.found # None => Ge(f.found[1].score, stand_pat)
               /\ (\A i \in DOMAIN f.wk :
                        f.wk[i].pc = "done" /\ Lt(f.wk[i].eval.score, stand_pat)) =>
                     /\ Finished(f)
                     /\ Result(f).score = stand_pat
                     /\ Result(f).mv = None

\* C12 witness: a quiescence node with two captures, both evaluated and
\* both losing, about to return its stand-pat record
C12_Witness ==
    \E p \in DOMAIN nodes :
        /\ nodes[p].kind = "quiescence"
        /\ Cardinality(DOMAIN nodes[p].wk) = 2
        /\ \A i \in DOMAIN nodes[p].wk :
              /\ nodes[p].wk[i].pc = "done"
              /\ Lt(nodes[p].wk[i].eval.score, eval_heuristic(BoardAt(board, p)))
        /\ Result(nodes[p]).score = eval_heuristic(BoardAt(board, p))
        /\ Result(nodes[p]).mv = None

\* C17: a search called with infinite = true runs with stop_time = None and
\* none of its passes is cut short by the deadline test, whatever operations
\* preceded it, an earlier search with a deadline on the same position
\* included.
C17_InfiniteNoDeadline ==
    (pc \in {"call", "running", "evaluated"} /\ ret.op = "search" /\ ret.infinite) =>
        (stop_time = None /\ ~passExpired)

\* C18: every call of search begins its loop with current_search_depth = 1
\* and best_move_found = None, whatever preceded it: a fresh
\* Engine::default(), a reset_game, a set_position or a previous search.
C18_SearchStartsFresh ==
    [][(pc = "idle" /\ pc' = "call") =>
           (current_search_depth' = 1 /\ best_move_found' = None)]_vars

\* C20: set_position is all-or-nothing: when the FEN fails to parse it
\* returns Err and leaves board, start_time, stop_time, current_search_depth
\* and best_move_found unchanged; when it succeeds it replaces the board and
\* resets the search parameters (start_time = None, stop_time = None,
\* current_search_depth = 1, best_move_found = None) and leaves debug
\* unchanged.
C20_AllOrNothing ==
    [][(calls' = calls + 1 /\ ret'.op = "set_position") =>
           IF ret'.ok
           THEN /\ board' = ret'.board
                /\ start_time' = None
                /\ stop_time' = None
                /\ current_search_depth' = 1
                /\ best_move_found' = None
                /\ debug' = debug
           ELSE UNCHANGED <<board, start_time, stop_time, current_search_depth,
                            best_move_found>>]_vars

\* C20 witness: set_position has returned Err on an engine that holds the
\* deadline, the depth and the best move of a finished search
C20_Witness ==
    /\ ret.op = "set_position" /\ ~ret.ok
    /\ start_time # None /\ stop_time # None
    /\ current_search_depth > 1
    /\ best_move_found # None

\* C22: the depth field of the record a node returns is the maximum depth
\* of any node evaluated in its subtree, siblings that did not improve best
\* included: when an expanding node returns, its record's depth is at least
\* the depth of each child it evaluated and of each record a child returned.
C22_Seldepth ==
    \A p \in DOMAIN nodes :
        Finished(nodes[p]) =>
            \A i \in DOMAIN nodes[p].wk :
                nodes[p].wk[i].pc \notin {"new", "called"} =>
                    /\ Result(nodes[p]).depth >= Len(p) + 1
                    /\ Result(nodes[p]).depth >= nodes[p].wk[i].eval.depth

\* C23: an expanding interior node of evaluate_board always returns a
\* record with mv = Some(m), m a legal move of the node's board; the
\* identity BoardEvaluation::min() is never returned, because every lifted
\* child score is strictly greater than Mate(0).
C23_InteriorHasMove ==
    \A p \in DOMAIN nodes :
        nodes[p].kind = "interior" =>
            LET f == nodes[p]
                b == BoardAt(board, p)
                Legal(e) == /\ e.mv # None
                            /\ e.mv[1].from = b
                            /\ e.mv[1].i \in 1 .. Len(b.moves)
            IN /\ \A i \in DOMAIN f.wk :
                      f.wk[i].pc \notin {"new", "called"} =>
                          Gt(f.wk[i].eval.score, mate(0))
               /\ f.found # None => Legal(f.found[1])
               /\ Finished(f) => (Result(f) # BE_min /\ Legal(Result(f)))

\* C23 witness: an interior node below the root has evaluated all its moves
\* and is about to return a record with a move
C23_Witness ==
    \E p \in DOMAIN nodes :
        /\ p # <<>>
        /\ nodes[p].kind = "interior"
        /\ Len(BoardAt(board, p).moves) = 2
        /\ \A i \in DOMAIN nodes[p].wk : nodes[p].wk[i].pc = "done"
        /\ Result(nodes[p]).mv # None

\* C24: a beta cutoff returns the cutting value: when find_map_any found a
\* value, in interior search or in quiescence, the record the node returns
\* carries the move and the score of a lifted child value whose score is
\* >= beta, so the returned score is >= beta, under every interleaving.
C24_CutReturnsCutter ==
    \A p \in DOMAIN nodes :
        (Finished(nodes[p]) /\ nodes[p].found # None) =>
            LET f == nodes[p]
                r == Result(f)
            IN /\ Ge(r.score, f.beta)
               /\ \E i \in DOMAIN f.wk :
                     /\ f.wk[i].pc = "done"
                     /\ Ge(f.wk[i].eval.score, f.beta)
                     /\ r.mv = f.wk[i].eval.mv
                     /\ r.score = f.wk[i].eval.score

\* C25: under every interleaving of the workers the shared alpha cell of a
\* node never decreases and the score in best never decreases; and when no
\* cutoff fired, the final best score is the maximum of all lifted child
\* scores (and of stand_pat in quiescence).
C25_CellsMonotone ==
    /\ [][\A p \in DOMAIN nodes \cap DOMAIN nodes' :
              /\ Ge(nodes'[p].alpha, nodes[p].alpha)
              /\ Ge(nodes'[p].best.score, nodes[p].best.score)]_vars
    /\ [](\A p \in DOMAIN nodes :
              (Finished(nodes[p]) /\ nodes[p].found = None) =>
                  /\ \A i \in DOMAIN nodes[p].wk :
                        Ge(nodes[p].best.score, nodes[p].wk[i].eval.score)
                  /\ nodes[p].kind = "quiescence" =>
                        Ge(nodes[p].best.score, eval_heuristic(BoardAt(board, p))))

\* C26: lock discipline: no worker holds a guard of best or alpha while it
\* recurses into a child, and no worker asks for the write lock of a cell
\* while it holds a read guard of that cell; hence the workers never
\* deadlock, and every worker that took a move eventually finishes it.
C26_LockDiscipline ==
    /\ [](\A i \in DOMAIN lk.wk :
             /\ lk.wk[i].pc = "recurse" => lk.wk[i].held = {}
             /\ (lk.wk[i].pc \in {"w_best", "w_alpha"} /\ ~lk.wk[i].inside) =>
                   <<Wants(lk.wk[i].pc)[1], "read">> \notin lk.wk[i].held)
    /\ [](~Finished(lk) => ENABLED NextLock)
    /\ \A i \in 1 .. MaxWorkers : (lk.wk[i].pc # "new") ~> (lk.wk[i].pc = "done")

\* C26 witness: a worker waits for the write lock of best while another
\* worker holds a read guard of it
C26_Witness ==
    \E i, j \in DOMAIN lk.wk :
        /\ i # j
        /\ lk.wk[i].pc = "w_best" /\ ~lk.wk[i].inside
        /\ <<"best", "read">> \in lk.wk[j].held

\* C27: once the clock has passed stop_time, every Ongoing node entered
\* afterwards, interior or quiescence, returns a terminated_early record
\* without expanding (no new node gets cells and workers), a root entered
\* then ends the loop, and search returns, with a move or an error, after
\* finitely many further steps.
C27_DeadlineTerminates ==
    /\ [][(stop_time # None /\ now > stop_time[1] /\ pc = "running" /\ pc' = "running") =>
             /\ DOMAIN nodes' \subseteq DOMAIN nodes
             /\ \A p \in DOMAIN nodes : \A i \in DOMAIN nodes[p].wk :
                   (/\ p \in DOMAIN nodes'
                    /\ nodes[p].wk[i].pc = "new"
                    /\ nodes'[p].wk[i].pc # "new"
                    /\ make_move_new(BoardAt(board, p), i).status = "Ongoing")
                       => /\ nodes'[p].wk[i].pc = "got"
                          /\ nodes'[p].wk[i].eval.terminated_early
                          /\ nodes'[p].wk[i].eval.depth = Len(p) + 1]_vars
    /\ [][(stop_time # None /\ now > stop_time[1] /\ pc = "call" /\ pc' # "call") =>
             /\ pc' = "evaluated"
             /\ pass_eval'.terminated_early \/ pass_eval'.mv = None
             /\ board.status = "Ongoing" => pass_eval'.terminated_early]_vars
    /\ (stop_time # None /\ now > stop_time[1] /\ pc \in {"call", "running", "evaluated"})
          ~> (pc = "idle" /\ ret.op = "search" /\ ~ret.running)

\* C27 witness: the deadline has passed while a pass is running, and a worker
\* that entered an Ongoing child holds the early record it got back
C27_Witness ==
    /\ stop_time # None /\ now > stop_time[1]
    /\ pc = "running"
    /\ \E p \in DOMAIN nodes : \E i \in DOMAIN nodes[p].wk :
          /\ nodes[p].wk[i].pc = "got"
          /\ nodes[p].wk[i].eval.terminated_early
          /\ make_move_new(BoardAt(board, p), i).status = "Ongoing"

\* C28: quiescence terminates without a deadline: it recurses only through
\* moves whose destination square holds an opponent piece, every recursion
\* acts on a board with strictly fewer pieces, and the recursion depth is
\* bounded by the number of pieces.
C28_QuiescenceTerminates ==
    /\ [][/\ \E k \in 1 .. MaxQSquares :
                /\ qs.pos.sq[k] # None
                /\ qs.pos.sq[k][1].color = Opp(qs.pos.side_to_move)
                /\ qs'.pos.sq[k] # None
                /\ qs'.pos.sq[k][1].color = qs.pos.side_to_move
          /\ Cardinality({k \in 1 .. MaxQSquares : qs'.pos.sq[k] # None})
                < Cardinality({k \in 1 .. MaxQSquares : qs.pos.sq[k] # None})]_vars
    /\ [](qs.depth <= qs.pieces)
    /\ <>[](~ENABLED QuiesceStep)

\* C28 witness: a recursion path has taken every piece but the kings
C28_Witness ==
    /\ qs.op = "quiescence"
    /\ qs.depth = MaxQSquares - 2
    /\ Cardinality({k \in 1 .. MaxQSquares : qs.pos.sq[k] # None}) = 2

\* The move leaves the opponent in Checkmate
DeliversMate(mv) == make_move_new(mv.from, mv.i).status = "Checkmate"

HasMateInOne(b) ==
    b.status = "Ongoing" /\ \E i \in 1 .. Len(b.moves) : DeliversMate(Move(b, i))

\* C10: on a board with a mate in one, every pass that is not terminated
\* early returns score Mate(1) with a move that delivers checkmate, and
\* search returns such a move.
C10_MateInOneFound ==
    /\ (pc = "evaluated" /\ HasMateInOne(board) /\ current_search_depth >= 1
            /\ ~pass_eval.terminated_early) =>
          /\ pass_eval.score = mate(1)
          /\ pass_eval.mv # None
          /\ DeliversMate(pass_eval.mv[1])
    /\ (ret.op = "search" /\ ~ret.running /\ ret.ok /\ HasMateInOne(board)) =>
          DeliversMate(ret.mv)

----------------------------------------------------------------------------
(* Claims about the static evaluator (checked under SpecEval) *)

\* C13: for every position, eval_heuristic of the board plus eval_heuristic
\* of the same piece placement with the side to move swapped equals 0, as
\* centipawn integers.
C13_PerspectiveFlip ==
    (ev.op = "both" /\ ~ev.res.panic /\ ~ev.swapped.panic) =>
        ev.res.val.v + ev.swapped.val.v = 0

\* The sum over all occupied squares of the table value of component f,
\* added for the side to move and subtracted for the opponent
ExactSum(pos, f) ==
    LET occupied == {i \in 0 .. 63 : pos.sq[i + 1] # None}
        val(i) == IF f = "mg" THEN MIDGAME_VALUE(pos.sq[i + 1][1].piece, TableIndex(pos, i))
                  ELSE ENDGAME_VALUE(pos.sq[i + 1][1].piece, TableIndex(pos, i))
        mine == {i \in occupied : pos.sq[i + 1][1].color = pos.side_to_move}
        RECURSIVE Sum(_)
        Sum(S) == IF S = {} THEN 0
                  ELSE LET i == CHOOSE j \in S : TRUE IN val(i) + Sum(S \ {i})
    IN Sum(mine) - Sum(occupied \ mine)

\* (mg_sum * phase + eg_sum * (24 - phase)) / 24 over the mathematical
\* integers, truncated toward zero
ExactEval(pos) ==
    TruncDiv(ExactSum(pos, "mg") * phase(pos)
                 + ExactSum(pos, "eg") * (24 - phase(pos)), 24)

\* C14: for every position with at most starting material, eval_heuristic
\* returns Centipawns of exactly (mg_sum * phase + eg_sum * (24 - phase)) / 24
\* computed over the mathematical integers and truncated toward zero: no i16
\* intermediate overflows (no panic) or wraps (no other value).
C14_TaperedExact ==
    ev.op \in {"eval", "both"} =>
        /\ ~ev.res.panic
        /\ ev.res.val = cp(ExactEval(ev.pos))

\* C30: colour-mirror invariance: eval_heuristic(P) equals eval_heuristic of
\* P mirrored vertically (square i to i XOR 56) with the piece colours and
\* the side to move swapped: the same value, and a panic in the same builds.
C30_MirrorInvariant ==
    ev.op = "mirror" =>
        /\ ev.res \in ev.mirrored
        /\ ev.mirrored = piece_table_eval(ev.pos)

\* C30 witness: a placement that is not its own mirror image, Black to
\* move, evaluated to a value other than 0 on both boards
C30_Witness ==
    /\ ev.op = "mirror"
    /\ ev.pos.side_to_move = "Black"
    /\ \E k \in 1 .. 64 : ev.pos.sq[k] # None /\ ev.pos.sq[Xor56(k - 1) + 1] = None
    /\ ~ev.res.panic /\ ev.res.val.v # 0
    /\ [panic |-> FALSE, val |-> ev.res.val] \in ev.mirrored

----------------------------------------------------------------------------
(* Claims about the driver loop (checked under SpecLoop) *)

\* C15: the search never raises: along any search the driver can run, for
\* any number of passes and any tree, no counter overflows; in particular
\* current_search_depth += 1 stays within u8 (no panic, no wrap-around).
C15_NeverRaises ==
    lp.op = "search" => (lp.state # "panic" /\ ~lp.wrapped)

\* C19: info lines are serialized by pass: within one search at most one
\* info line is emitted per pass, after that pass's root evaluation has
\* returned, and their depth fields are strictly increasing by exactly 1.
C19_InfoSerialized ==
    lp.op = "search" =>
        /\ Len(lp.out) <= lp.passes
        /\ \A k \in 2 .. Len(lp.out) : lp.out[k].depth = lp.out[k - 1].depth + 1

----------------------------------------------------------------------------
(* Claims about the time policy (checked under SpecTime) *)

\* C16: the first matching branch wins: infinite sets no deadline even if
\* movetime or clocks are given; otherwise movetime gives stop_time = start
\* + movetime - 20 ms even if clocks are given; otherwise the clock of the
\* side to move gives thinking_time = time / movestogo when movestogo is set
\* (even if an increment is set too), else time/20 + inc/2 when the increment
\* is set, and stop_time = start + thinking_time - 20 ms; a clock with
\* neither, or no clock at all, fails as Unimplemented.
C16_TimePolicy ==
    tm.op = "done" =>
        LET o == tm.o
            time == IF tm.stm = "White" THEN o.wtime ELSE o.btime
            inc == IF tm.stm = "White" THEN o.winc ELSE o.binc
            Deadline(thinking_time) ==
                /\ tm.res.tag = "ok"
                /\ tm.res.stop_time = Some(tm.now + thinking_time - 20)
        IN IF o.infinite THEN tm.res.tag = "ok" /\ tm.res.stop_time = tm.stop_time
           ELSE IF o.movetime # None THEN Deadline(o.movetime[1])
           ELSE IF time # None /\ o.movestogo # None
               THEN o.movestogo[1] > 0 => Deadline(time[1] \div o.movestogo[1])
           ELSE IF time # None /\ inc # None
               THEN Deadline((time[1] \div 20) + (inc[1] \div 2))
           ELSE tm.res.tag = "panic" /\ tm.res.why = "unimplemented"

\* C21: all time-manager arithmetic is checked: a thinking time below the
\* 20 ms slack, movestogo = 0 and an Instant addition overflow each surface
\* as an error returned by calculate_stop_time, never as an arithmetic panic
\* (the unimplemented!() abort of an uncovered time control is not
\* arithmetic).
C21_CheckedArithmetic ==
    tm.op = "done" =>
        LET o == tm.o
            time == IF tm.stm = "White" THEN o.wtime ELSE o.btime
            inc == IF tm.stm = "White" THEN o.winc ELSE o.binc
            Underflow(thinking_time) == thinking_time < 20
        IN /\ ~(tm.res.tag = "panic" /\ tm.res.why = "arithmetic")
           /\ (~o.infinite /\ o.movetime # None /\ Underflow(o.movetime[1])) =>
                 tm.res.tag = "err"
           /\ (~o.infinite /\ o.movetime = None /\ time # None /\ o.movestogo = Some(0)) =>
                 tm.res.tag = "err"

----------------------------------------------------------------------------
(* Claims about the Score algebra (checked under SpecScore) *)

Reverse(o) == IF o = "Less" THEN "Greater" ELSE IF o = "Greater" THEN "Less" ELSE o

\* C6: cmp is a total order on Score: cmp(a, b) is the reverse of cmp(b, a)
\* (so exactly one of a < b, a = b, a > b holds), cmp returns Equal exactly
\* when a == b, and a < b, b < c imply a < c.
C6_TotalOrder ==
    sres.op = "cmp" =>
        /\ sres.ab \in {"Less", "Equal", "Greater"}
        /\ sres.ab = Reverse(sres.ba)
        /\ (sres.ab = "Equal") <=> sres.eq
        /\ (sres.ab = "Less" /\ sres.bc = "Less") => sres.ac = "Less"

\* C6 witness: a transitive chain through all three kinds of score
C6_Witness ==
    /\ sres.op = "cmp"
    /\ sa.t = "mate" /\ sb.t = "cp" /\ sc.t = "mate"
    /\ sres.ab = "Less" /\ sres.bc = "Less" /\ sres.ac = "Less"

\* The position of a score on the line the specification describes:
\* Mate(0) < Mate(-1) < ... < Mate(-k) < Centipawns (as integers)
\*         < Mate(+j) < ... < Mate(+1)
Rank(s) ==
    IF s.t = "cp" THEN <<1, s.v>>
    ELSE IF s.v <= 0 THEN <<0, -s.v>>
    ELSE <<2, -s.v>>

RankLess(r1, r2) == r1[1] < r2[1] \/ (r1[1] = r2[1] /\ r1[2] < r2[2])

\* C7: the order places mates at both extremes: a < b exactly when a comes
\* before b on the line above; Score::min() <= every score and
\* Score::max() >= every score.
C7_MatesAtExtremes ==
    sres.op = "cmp" =>
        /\ (sres.ab = "Less") <=> RankLess(Rank(sa), Rank(sb))
        /\ sres.minA # "Greater"
        /\ sres.maxA # "Less"

\* C7 witness: being mated < worst centipawn value < slowest mate delivered
C7_Witness ==
    /\ sres.op = "cmp"
    /\ sa = mate(-MaxMate) /\ sb = cp(I16Min) /\ sc = mate(I8Max)
    /\ sres.ab = "Less" /\ sres.bc = "Less"

\* What the specification says flip returns, over the mathematical integers
FlipSpec(s) ==
    IF s.t = "cp" THEN cp(-s.v)
    ELSE IF s.v > 0 THEN mate(-(s.v + 1))
    ELSE mate(Abs(s.v) + 1)

\* Twice flipped: centipawns unchanged, mate counters two plies further from
\* zero with their sign kept (Mate(0) counts as a non-positive counter turned
\* into Mate(1) and then Mate(-2))
FlipTwiceSpec(s) == FlipSpec(FlipSpec(s))

\* C8: flip returns FlipSpec(s) for every score, and flipping twice returns
\* FlipTwiceSpec(s); no flip panics.
C8_FlipLaw ==
    /\ sres.op = "flip" => (~sres.out.panic /\ sres.out.val = FlipSpec(sa))
    /\ sres.op = "flip2" => (~sres.out.panic /\ sres.out.val = FlipTwiceSpec(sa))

\* C29: flip is strictly order-reversing: for all scores a, b whose flips do
\* not overflow, a < b iff a.flip() > b.flip().
C29_FlipReversesOrder ==
    (sres.op = "flipcmp" /\ ~flipOverflows(sa) /\ ~flipOverflows(sb)) =>
        /\ ~sres.a.panic /\ ~sres.b.panic
        /\ (sres.ab = "Less") <=> (sres.fab = "Greater")

\* C29 witness: a cornered score below a mating score, flipped into a mated
\* score below a winning one
C29_Witness ==
    /\ sres.op = "flipcmp"
    /\ sa.t = "mate" /\ sa.v < 0 /\ sb.t = "mate" /\ sb.v > 0
    /\ ~flipOverflows(sa) /\ ~flipOverflows(sb)
    /\ sres.ab = "Less" /\ sres.fab = "Greater"

====
